---------------------------- MODULE Spec2Model ----------------------------
(***************************************************************************)
(* Model of the vulnerability-report analytics scripts:                    *)
(*   scripts/aggregate.py   normalizer, metrics and agreement rows         *)
(*   scripts/comparator.py  per-day indexes, day-over-day diffs,           *)
(*                          first-seen index and leadership rows           *)
(*   scripts/sum_plots.py   merge of the records of all days into          *)
(*                          identifier -> severity maps                    *)
(* SpecAgg runs aggregate.main over a batch of report files, SpecCmp runs  *)
(* comparator.main and SpecSum runs sum_plots.main over a reports tree;    *)
(* each leaves the other programs' variables untouched.  Spec starts any   *)
(* of the three.                                                           *)
(***************************************************************************)
EXTENDS Integers, Sequences, FiniteSets, TLC

(***************************************************************************)
(* Bounds of the model.                                                    *)
(***************************************************************************)
\* Largest number of report files in one batch given to aggregate.main.
MaxFiles == 2

(***************************************************************************)
(* JSON values as json.loads returns them.  An object keeps its members in *)
(* document order (a Python dict iterates in insertion order).             *)
(***************************************************************************)
JNull == [t |-> "null"]
JBool(b) == [t |-> "bool", b |-> b]
JNum(n) == [t |-> "num", n |-> n]
JStr(s) == [t |-> "str", s |-> s]
JArr(items) == [t |-> "arr", items |-> items]
JObj(pairs) == [t |-> "obj", pairs |-> pairs]

\* Python truthiness: None, False, 0, "", [] and {} are falsy.
Truthy(j) ==
  CASE j.t = "null" -> FALSE
    [] j.t = "bool" -> j.b
    [] j.t = "num" -> j.n # 0
    [] j.t = "str" -> j.s # ""
    [] j.t = "arr" -> Len(j.items) > 0
    [] j.t = "obj" -> Len(j.pairs) > 0

\* key in obj
HasKey(obj, key) == \E i \in 1..Len(obj.pairs) : obj.pairs[i][1] = key

\* obj.get(key, default)
GetOr(obj, key, default) ==
  IF HasKey(obj, key)
    THEN obj.pairs[CHOOSE i \in 1..Len(obj.pairs) : obj.pairs[i][1] = key][2]
    ELSE default

\* obj.get(key)
Get(obj, key) == GetOr(obj, key, JNull)

\* a or b
PyOr(a, b) == IF Truthy(a) THEN a ELSE b

\* for x in j: the values a for-loop visits, or not iterable (TypeError).
\* A dict yields its keys; a non-empty str yields its characters, each a str
\* (one stands for all of them: every use below only asks for the type).
Iterate(j) ==
  CASE j.t = "arr" -> [ok |-> TRUE, items |-> j.items]
    [] j.t = "obj" -> [ok |-> TRUE,
                       items |-> [i \in 1..Len(j.pairs) |-> JStr(j.pairs[i][1])]]
    [] j.t = "str" -> [ok |-> TRUE,
                       items |-> IF j.s = "" THEN <<>> ELSE <<JStr("c")>>]
    [] OTHER -> [ok |-> FALSE, items |-> <<>>]

(***************************************************************************)
(* Strings.  The str methods the code calls, on the strings of the model.  *)
(***************************************************************************)
\* str.strip()
Strip(s) ==
  CASE s = " negligible " -> "negligible"
    [] s = " High " -> "High"
    [] OTHER -> s

\* str.upper()
Upper(s) ==
  CASE s \in {"critical", "Critical"} -> "CRITICAL"
    [] s \in {"high", "High"} -> "HIGH"
    [] s \in {"medium", "Medium"} -> "MEDIUM"
    [] s \in {"low", "Low"} -> "LOW"
    [] s \in {"unknown", "Unknown"} -> "UNKNOWN"
    [] s \in {"negligible", "Negligible"} -> "NEGLIGIBLE"
    [] s \in {"bogus", "Bogus"} -> "BOGUS"
    [] s = " negligible " -> " NEGLIGIBLE "
    [] s = " High " -> " HIGH "
    [] s = "cve-2024-0001" -> "CVE-2024-0001"
    [] s = "cve-2024-0002" -> "CVE-2024-0002"
    [] s = "cve-2024-0003" -> "CVE-2024-0003"
    [] s = "libssl-dsa" -> "LIBSSL-DSA"
    [] s = "see cve-2024-0003 advisory" -> "SEE CVE-2024-0003 ADVISORY"
    [] OTHER -> s

\* str.lower()
Lower(s) ==
  CASE s \in {"CRITICAL", "Critical"} -> "critical"
    [] s \in {"HIGH", "High"} -> "high"
    [] s \in {"MEDIUM", "Medium"} -> "medium"
    [] s \in {"LOW", "Low"} -> "low"
    [] s \in {"UNKNOWN", "Unknown"} -> "unknown"
    [] s \in {"NEGLIGIBLE", "Negligible"} -> "negligible"
    [] s \in {"BOGUS", "Bogus"} -> "bogus"
    [] s = "Trivy" -> "trivy"
    [] s = "Clair" -> "clair"
    [] OTHER -> s

\* str.title()
Title(s) ==
  CASE s \in {"CRITICAL", "critical"} -> "Critical"
    [] s \in {"HIGH", "high"} -> "High"
    [] s \in {"MEDIUM", "medium"} -> "Medium"
    [] s \in {"LOW", "low"} -> "Low"
    [] s \in {"UNKNOWN", "unknown"} -> "Unknown"
    [] s \in {"NEGLIGIBLE", "negligible"} -> "Negligible"
    [] s \in {"BOGUS", "bogus"} -> "Bogus"
    [] OTHER -> s

\* The first match of CVE_RX (CVE-\d{4}-\d+, any case) in s, or "" for no match.
CVE_RX_search(s) ==
  CASE s \in {"CVE-2024-0001", "cve-2024-0001"} -> s
    [] s \in {"CVE-2024-0002", "cve-2024-0002"} -> s
    [] s \in {"CVE-2024-0003", "cve-2024-0003"} -> s
    [] s = "see cve-2024-0003 advisory" -> "cve-2024-0003"
    [] OTHER -> ""

SEV_BUCKETS == <<"CRITICAL", "HIGH", "MEDIUM", "LOW", "UNKNOWN">>
SevSet == {SEV_BUCKETS[i] : i \in 1..Len(SEV_BUCKETS)}

(***************************************************************************)
(* The normalizer of aggregate.py.  A generator's outcome is the list it   *)
(* yields, or raised = TRUE when consuming it raises.                      *)
(***************************************************************************)
Raised == [raised |-> TRUE, items |-> <<>>]
Yielded(items) == [raised |-> FALSE, items |-> items]

\* Outcome of evaluating an expression: a value v, or raised.
Val(v) == [raised |-> FALSE, v |-> v]
Exc == [raised |-> TRUE, v |-> JNull]

\* extract_cve(text): the upper-cased token, JNull for None.
extract_cve(text) ==
  IF ~Truthy(text) THEN Val(JNull)
  ELSE IF text.t # "str" THEN Exc
  ELSE IF CVE_RX_search(text.s) = "" THEN Val(JNull)
  ELSE Val(JStr(Upper(CVE_RX_search(text.s))))

\* sev_norm_trivy without the test against SEV_BUCKETS.
sev_norm_trivy_Unbucketed(v) ==
  LET raw == PyOr(Get(v, "Severity"), JStr("UNKNOWN")) IN
    IF raw.t # "str" THEN Exc ELSE Val(JStr(Upper(raw.s)))

\* sev_norm_trivy(v)
sev_norm_trivy(v) ==
  LET raw == PyOr(Get(v, "Severity"), JStr("UNKNOWN")) IN
    IF raw.t # "str" THEN Exc
    ELSE LET s == Upper(raw.s) IN
      Val(JStr(IF s \in SevSet THEN s ELSE "UNKNOWN"))


\* One element v of a Trivy "Vulnerabilities" list (aggregate.py lines 69-74).
trivy_vuln(v) ==
  IF v.t # "obj" THEN Raised
  ELSE LET idraw == PyOr(Get(v, "VulnerabilityID"), JStr("")) IN
    IF idraw.t # "str" THEN Raised
    ELSE IF Upper(idraw.s) = "" THEN Yielded(<<>>)
    ELSE LET sev == sev_norm_trivy(v) IN
      IF sev.raised THEN Raised
      ELSE Yielded(<<[id |-> Upper(idraw.s), severity |-> sev.v.s]>>)

RECURSIVE trivy_vulns(_, _)
\* for v in vulns, from position i on
trivy_vulns(vulns, i) ==
  IF i > Len(vulns) THEN Yielded(<<>>)
  ELSE LET head == trivy_vuln(vulns[i]) IN
    IF head.raised THEN Raised
    ELSE LET rest == trivy_vulns(vulns, i + 1) IN
      IF rest.raised THEN Raised ELSE Yielded(head.items \o rest.items)

\* One element r of "Results" (aggregate.py lines 67-69).
trivy_result(r) ==
  IF r.t # "obj" THEN Raised
  ELSE LET it == Iterate(PyOr(Get(r, "Vulnerabilities"), JArr(<<>>))) IN
    IF ~it.ok THEN Raised ELSE trivy_vulns(it.items, 1)

RECURSIVE trivy_results(_, _)
\* for r in results, from position i on
trivy_results(results, i) ==
  IF i > Len(results) THEN Yielded(<<>>)
  ELSE LET head == trivy_result(results[i]) IN
    IF head.raised THEN Raised
    ELSE LET rest == trivy_results(results, i + 1) IN
      IF rest.raised THEN Raised ELSE Yielded(head.items \o rest.items)

\* list(trivy_iter_items(obj))
trivy_iter_items(obj) ==
  LET results == IF obj.t = "obj" THEN GetOr(obj, "Results", JArr(<<>>))
                 ELSE JArr(<<>>)
      it == Iterate(results)
  IN IF ~it.ok THEN Raised ELSE trivy_results(it.items, 1)

\* One (key, v) of the Clair vulnerability map (aggregate.py lines 49-60).
clair_vuln(key, v) ==
  IF v.t # "obj" THEN Raised
  ELSE LET raw == PyOr(PyOr(Get(v, "normalized_severity"), Get(v, "severity")),
                       JStr("UNKNOWN")) IN
    IF raw.t # "str" THEN Raised
    ELSE LET norm == Title(Strip(raw.s)) IN
      IF Lower(norm) = "negligible" THEN Yielded(<<>>)
      ELSE LET sev == IF Upper(norm) \in SevSet THEN Upper(norm) ELSE "UNKNOWN"
               byName == extract_cve(Get(v, "name"))
           IN IF byName.raised THEN Raised
              ELSE LET byLinks == IF Truthy(byName.v) THEN byName
                                  ELSE extract_cve(Get(v, "links")) IN
                IF byLinks.raised THEN Raised
                ELSE LET vid == PyOr(PyOr(byLinks.v, Get(v, "name")), JStr(key))
                         shown == PyOr(vid, JStr(key))
                     IN IF shown.t # "str" THEN Raised
                        ELSE Yielded(<<[id |-> Upper(shown.s), severity |-> sev]>>)

RECURSIVE clair_vulns(_, _)
\* for key, v in vulns.items(), from position i on
clair_vulns(pairs, i) ==
  IF i > Len(pairs) THEN Yielded(<<>>)
  ELSE LET head == clair_vuln(pairs[i][1], pairs[i][2]) IN
    IF head.raised THEN Raised
    ELSE LET rest == clair_vulns(pairs, i + 1) IN
      IF rest.raised THEN Raised ELSE Yielded(head.items \o rest.items)

\* The heuristic of lines 42-43: the first value looks like a vuln object.
LooksLikeVulnMap(obj) ==
  /\ Len(obj.pairs) > 0
  /\ LET sample == obj.pairs[1][2] IN
       /\ sample.t = "obj"
       /\ \/ HasKey(sample, "name")
          \/ HasKey(sample, "normalized_severity")
          \/ HasKey(sample, "severity")

\* list(clair_iter_items(obj))
clair_iter_items(obj) ==
  IF obj.t # "obj" THEN Yielded(<<>>)
  ELSE IF HasKey(obj, "vulnerabilities") /\ Get(obj, "vulnerabilities").t = "obj"
    THEN clair_vulns(Get(obj, "vulnerabilities").pairs, 1)
  ELSE IF LooksLikeVulnMap(obj) THEN clair_vulns(obj.pairs, 1)
  ELSE Yielded(<<>>)

(***************************************************************************)
(* Report files: the documents a file may hold and the paths of a batch.   *)
(***************************************************************************)
\* A file whose text is not a JSON object or array: read_json returns None.
NoJson(why) == [text |-> why, js |-> JNull]
\* A file holding the JSON object or array js.
Json(js) == [text |-> "json", js |-> js]

TrivyVulnObj(id, sev) == JObj(<<<<"VulnerabilityID", id>>, <<"Severity", sev>>>>)
TrivyDoc(vulns) ==
  JObj(<<<<"SchemaVersion", JNum(2)>>,
         <<"Results", JArr(<<JObj(<<<<"Target", JStr("os")>>,
                                    <<"Vulnerabilities", vulns>>>>)>>)>>>>)
ClairVulnObj(name, links, sevKey, sev) ==
  JObj(<<<<"name", name>>, <<"links", links>>, <<sevKey, sev>>>>)

\* The documents of the model, by number.
Docs ==
  << NoJson("unreadable"),
     NoJson("empty"),
     NoJson("malformed"),
     NoJson("scalar"),
     \* 5: Trivy report, CVE-2024-0001 HIGH and CVE-2024-0002 LOW
     Json(TrivyDoc(JArr(<<TrivyVulnObj(JStr("CVE-2024-0001"), JStr("HIGH")),
                          TrivyVulnObj(JStr("cve-2024-0002"), JStr("low"))>>))),
     \* 6: Trivy report, CVE-2024-0001 twice, one entry without an id
     Json(TrivyDoc(JArr(<<TrivyVulnObj(JStr("CVE-2024-0001"), JStr("MEDIUM")),
                          TrivyVulnObj(JStr("CVE-2024-0001"), JStr("Critical")),
                          TrivyVulnObj(JNull, JStr("HIGH")),
                          TrivyVulnObj(JStr("CVE-2024-0003"), JNull)>>))),
     \* 7: Trivy report of a clean image ("Vulnerabilities": null)
     Json(TrivyDoc(JNull)),
     \* 8: "Results" is null
     Json(JObj(<<<<"Results", JNull>>>>)),
     \* 9: "Results" holds a non-object entry
     Json(JObj(<<<<"Results", JArr(<<JStr("none")>>)>>>>)),
     \* 10: a severity that is not a string
     Json(TrivyDoc(JArr(<<TrivyVulnObj(JStr("CVE-2024-0001"), JNum(7))>>))),
     \* 11: Clair report: CVE-2024-0002 High, CVE-2024-0003 (in links) medium,
     \*     CVE-2024-0001 negligible
     Json(JObj(<<<<"vulnerabilities",
        JObj(<<<<"101", ClairVulnObj(JStr("CVE-2024-0002"), JStr(""),
                                     "normalized_severity", JStr("High"))>>,
               <<"102", ClairVulnObj(JStr("libssl-dsa"),
                                     JStr("see cve-2024-0003 advisory"),
                                     "severity", JStr("medium"))>>,
               <<"103", ClairVulnObj(JStr("cve-2024-0001"), JNull,
                                     "normalized_severity",
                                     JStr(" negligible "))>>>>)>>>>)),
     \* 12: Clair report whose top level is the map itself
     Json(JObj(<<<<"7", ClairVulnObj(JStr("libssl-dsa"), JNull,
                                     "severity", JStr("Bogus"))>>,
                 <<"8", ClairVulnObj(JStr("CVE-2024-0001"), JNull,
                                     "severity", JNull)>>>>)),
     \* 13: a "vulnerabilities" map with a non-object value
     Json(JObj(<<<<"vulnerabilities", JObj(<<<<"101", JStr("n/a")>>>>)>>>>)),
     \* 14: a Clair severity that is not a string
     Json(JObj(<<<<"vulnerabilities",
        JObj(<<<<"101", ClairVulnObj(JStr("CVE-2024-0002"), JNull,
                                     "normalized_severity", JNum(3))>>>>)>>>>)),
     \* 15: a Clair "links" that is not a string
     Json(JObj(<<<<"vulnerabilities",
        JObj(<<<<"101", ClairVulnObj(JStr("libssl-dsa"),
                                     JArr(<<JStr("cve-2024-0003")>>),
                                     "severity", JStr("Low"))>>>>)>>>>)),
     \* 16: neither shape, with a CVE token in it
     Json(JObj(<<<<"note", JStr("CVE-2024-0001")>>>>)),
     \* 17: a top-level array
     Json(JArr(<<>>)),
     \* 18: Trivy report, CVE-2024-0002 twice (Critical first) and an entry
     \*     with a severity outside Trivy's vocabulary
     Json(TrivyDoc(JArr(<<TrivyVulnObj(JStr("CVE-2024-0002"), JStr("Critical")),
                          TrivyVulnObj(JStr("CVE-2024-0002"), JStr("medium")),
                          TrivyVulnObj(JStr("CVE-2024-0003"),
                                       JStr("Negligible"))>>))),
     \* 19: Trivy report, CVE-2024-0001 HIGH
     Json(TrivyDoc(JArr(<<TrivyVulnObj(JStr("CVE-2024-0001"), JStr("HIGH"))>>))),
     \* 20: Trivy report, CVE-2024-0001 CRITICAL and CVE-2024-0002 LOW
     Json(TrivyDoc(JArr(<<TrivyVulnObj(JStr("CVE-2024-0001"), JStr("CRITICAL")),
                          TrivyVulnObj(JStr("CVE-2024-0002"), JStr("LOW"))>>))),
     \* 21: Clair report whose only entry, CVE-2024-0002, is Negligible
     Json(JObj(<<<<"vulnerabilities",
        JObj(<<<<"101", ClairVulnObj(JStr("CVE-2024-0002"), JStr(""),
                                     "normalized_severity",
                                     JStr("Negligible"))>>>>)>>>>)) >>

NDocs == Len(Docs)

\* The paths of the model in sorted order, as rglob("*.json") finds them under
\* the input directory: the directory parts and the stem of the file name.
Paths ==
  << [dirs |-> <<"in", "reports", "Trivy", "01-01-2025">>, stem |-> "imgA"],
     [dirs |-> <<"in", "reports", "clair", "01-01-2025">>, stem |-> "imgA"],
     [dirs |-> <<"in", "reports", "trivy", "02-01-2025">>, stem |-> "imgA"],
     [dirs |-> <<"in", "scans">>, stem |-> "imgB"],
     [dirs |-> <<"in", "trivy", "reports", "clair", "01-01-2025">>,
      stem |-> "imgA"] >>

NPaths == Len(Paths)
Stems == {Paths[i].stem : i \in 1..NPaths}

\* read_json(path): the parsed document, or None.
read_json(doc) ==
  IF doc.text = "json" THEN [none |-> FALSE, js |-> doc.js]
  ELSE [none |-> TRUE, js |-> JNull]

\* detect_tool_from_path(p), for the file at path holding doc
detect_tool_from_path(path, doc) ==
  LET parts == {Lower(path.dirs[i]) : i \in 1..Len(path.dirs)}
      obj == read_json(doc)
  IN IF "trivy" \in parts THEN "trivy"
     ELSE IF "clair" \in parts THEN "clair"
     ELSE IF ~obj.none /\ obj.js.t = "obj" /\ HasKey(obj.js, "Results")
       THEN "trivy"
     ELSE "clair"

\* load_items(p): (tool, items), tool "none" for None, or raised.
load_items(path, doc) ==
  LET obj == read_json(doc) IN
    IF obj.none THEN [raised |-> FALSE, tool |-> "none", items |-> <<>>]
    ELSE LET tool == detect_tool_from_path(path, doc)
             got == IF tool = "trivy" THEN trivy_iter_items(obj.js)
                    ELSE clair_iter_items(obj.js)
         IN IF got.raised
              THEN [raised |-> TRUE, tool |-> tool, items |-> <<>>]
              ELSE [raised |-> FALSE, tool |-> tool, items |-> got.items]

(***************************************************************************)
(* aggregate.py: severity counts, risk, agreement.                         *)
(***************************************************************************)
\* A weight table that gives LOW the weight of MEDIUM.
RISK_W_LowAsMedium ==
  [k \in SevSet |->
     CASE k = "CRITICAL" -> 10 [] k = "HIGH" -> 6 [] k = "MEDIUM" -> 2
       [] k = "LOW" -> 2 [] k = "UNKNOWN" -> 0]
\* RISK_W in units of one half, so that LOW's weight 0.5 is the integer 1.
RISK_W ==
  [k \in SevSet |->
     CASE k = "CRITICAL" -> 10 [] k = "HIGH" -> 6 [] k = "MEDIUM" -> 2
       [] k = "LOW" -> 1 [] k = "UNKNOWN" -> 0]

\* severity_counts(items); c[it["severity"]] is a KeyError outside the buckets.
severity_counts(items) ==
  [k \in SevSet |-> Cardinality({i \in 1..Len(items) : items[i].severity = k})]
severity_counts_raises(items) ==
  \E i \in 1..Len(items) : items[i].severity \notin SevSet

\* risk_score(c), in halves
risk_score(c) ==
  c["CRITICAL"] * RISK_W["CRITICAL"] + c["HIGH"] * RISK_W["HIGH"]
    + c["MEDIUM"] * RISK_W["MEDIUM"] + c["LOW"] * RISK_W["LOW"]
    + c["UNKNOWN"] * RISK_W["UNKNOWN"]

\* sum(sc.values())
SumCounts(c) ==
  c["CRITICAL"] + c["HIGH"] + c["MEDIUM"] + c["LOW"] + c["UNKNOWN"]

\* {it["id"] for it in items if it.get("id")}
ItemIds(items) == {items[i].id : i \in {j \in 1..Len(items) : items[j].id # ""}}

\* round(num / den, 3) in thousandths, den > 0: to nearest, ties to even
\* (the quotients of the model are far from the ties a float could misplace).
Round3(num, den) ==
  LET q == (1000 * num) \div den
      r == (1000 * num) % den
  IN IF 2 * r > den THEN q + 1
     ELSE IF 2 * r < den THEN q
     ELSE IF q % 2 = 0 THEN q ELSE q + 1

\* Jaccard without the convention for an empty union: 0.0 where the code has 1.0.
Jaccard_ZeroWhenEmpty(A, B) ==
  IF (A \cup B) # {} THEN Round3(Cardinality(A \cap B), Cardinality(A \cup B))
  ELSE 0

\* round((len(inter) / len(union)) if union else 1.0, 3), in thousandths
Jaccard(A, B) ==
  IF (A \cup B) # {} THEN Round3(Cardinality(A \cap B), Cardinality(A \cup B))
  ELSE 1000

\* The agreement row of one image (aggregate.py lines 165-178).
AgreementRow(image, m) ==
  [image |-> image,
   trivy_count |-> Cardinality(m.trivy),
   clair_count |-> Cardinality(m.clair),
   both |-> Cardinality(m.trivy \cap m.clair),
   only_trivy |-> Cardinality(m.trivy \ m.clair),
   only_clair |-> Cardinality(m.clair \ m.trivy),
   union |-> Cardinality(m.trivy \cup m.clair),
   jaccard |-> Jaccard(m.trivy, m.clair)]

\* The image names in sorted order.
SortedStems == <<"imgA", "imgB">>

\* AgreeUpdate assigning the file's identifiers where the code merges them.
AgreeUpdate_Overwrite(amap, image, tool, ids) ==
  LET old == IF image \in DOMAIN amap THEN amap[image]
             ELSE [trivy |-> {}, clair |-> {}]
      new == IF tool = "trivy" THEN [old EXCEPT !.trivy = ids]
             ELSE [old EXCEPT !.clair = ids]
  IN [i \in DOMAIN amap \cup {image} |-> IF i = image THEN new ELSE amap[i]]

\* agree[tool].update(ids) on agree_map.setdefault(image, {...})
AgreeUpdate(amap, image, tool, ids) ==
  LET old == IF image \in DOMAIN amap THEN amap[image]
             ELSE [trivy |-> {}, clair |-> {}]
      new == IF tool = "trivy" THEN [old EXCEPT !.trivy = @ \cup ids]
             ELSE [old EXCEPT !.clair = @ \cup ids]
  IN [i \in DOMAIN amap \cup {image} |-> IF i = image THEN new ELSE amap[i]]

(***************************************************************************)
(* Sorting of strings: Python compares str by code point.                  *)
(***************************************************************************)
\* The strings the programs sort, in increasing order.
StrOrder ==
  <<"CVE-2024-0001", "CVE-2024-0002", "CVE-2024-0003", "LIBSSL-DSA",
    "clair", "imgA", "imgB", "trivy">>

\* sorted(S) for a set S of such strings
Sorted(S) == SelectSeq(StrOrder, LAMBDA x : x \in S)

RECURSIVE SumSeq(_)
\* sum of a sequence of numbers
SumSeq(q) == IF q = <<>> THEN 0 ELSE Head(q) + SumSeq(Tail(q))

RECURSIVE Flatten(_)
\* concatenation of a sequence of sequences
Flatten(qq) == IF qq = <<>> THEN <<>> ELSE Head(qq) \o Flatten(Tail(qq))

(***************************************************************************)
(* comparator.py: date folders.                                            *)
(***************************************************************************)
\* datetime.strptime(name, "%d-%m-%Y").date() on the folder names of the
\* model; ok = FALSE stands for None (the name does not parse).
parse_date_folder(name) ==
  CASE name = "31-12-2024" -> [ok |-> TRUE, y |-> 2024, m |-> 12, d |-> 31]
    [] name = "01-01-2025" -> [ok |-> TRUE, y |-> 2025, m |-> 1, d |-> 1]
    [] name = "1-1-2025" -> [ok |-> TRUE, y |-> 2025, m |-> 1, d |-> 1]
    [] name = "03-01-2025" -> [ok |-> TRUE, y |-> 2025, m |-> 1, d |-> 3]
    [] OTHER -> [ok |-> FALSE, y |-> 0, m |-> 0, d |-> 0]

IsLeap(y) == (y % 4 = 0) /\ ((y % 100 # 0) \/ (y % 400 = 0))

DaysInMonth(y, m) ==
  CASE m \in {1, 3, 5, 7, 8, 10, 12} -> 31
    [] m \in {4, 6, 9, 11} -> 30
    [] OTHER -> IF IsLeap(y) THEN 29 ELSE 28

\* date.toordinal(): days since 0001-01-01, that day being 1.
ToOrdinal(dt) ==
  LET y1 == dt.y - 1
      before_year == y1 * 365 + (y1 \div 4) - (y1 \div 100) + (y1 \div 400)
      before_month == SumSeq([k \in 1..(dt.m - 1) |-> DaysInMonth(dt.y, k)])
  IN before_year + before_month + dt.d

\* DateKey ordering the folder names as strings, not as dates.
DateKey_ByName(name) ==
  CASE name = "01-01-2025" -> 1
    [] name = "03-01-2025" -> 2
    [] name = "1-1-2025" -> 3
    [] name = "31-12-2024" -> 4
    [] OTHER -> 0

\* The sort key of comparator.py line 271: the parsed date (dates compare by
\* their ordinal); an unparsable name sorts as 1970-01-01.
DateKey(name) ==
  IF parse_date_folder(name).ok THEN ToOrdinal(parse_date_folder(name))
  ELSE ToOrdinal([y |-> 1970, m |-> 1, d |-> 1])

\* DayDiff with the operands exchanged.
DayDiff_Reversed(dt_t, dt_c) == ToOrdinal(dt_c) - ToOrdinal(dt_t)

\* (dt_t - dt_c).days
DayDiff(dt_t, dt_c) == ToOrdinal(dt_t) - ToOrdinal(dt_c)

\* dt.strftime("%d-%m-%Y") on the dates of the model
strftime(dt) ==
  CASE dt.y = 2024 /\ dt.m = 12 /\ dt.d = 31 -> "31-12-2024"
    [] dt.y = 2025 /\ dt.m = 1 /\ dt.d = 1 -> "01-01-2025"
    [] dt.y = 2025 /\ dt.m = 1 /\ dt.d = 3 -> "03-01-2025"
    [] OTHER -> "?"

\* The sequences sorted(S, key=DateKey) may return: a stable sort of a set,
\* whose iteration order is arbitrary, leaves equal keys in any order.
SortedByDate(S) ==
  {q \in [1..Cardinality(S) -> S] :
     /\ \A i, j \in DOMAIN q : i # j => q[i] # q[j]
     /\ \A i, j \in DOMAIN q : i < j => DateKey(q[i]) <= DateKey(q[j])}

(***************************************************************************)
(* comparator.py: identifiers of a report document.                        *)
(***************************************************************************)
\* load_json(path): the parsed document, or None.  json.load takes a scalar
\* where read_json of aggregate.py refuses it.
load_json(doc) ==
  IF doc.text = "json" THEN [none |-> FALSE, js |-> doc.js]
  ELSE IF doc.text = "scalar" THEN [none |-> FALSE, js |-> JNum(7)]
  ELSE [none |-> TRUE, js |-> JNull]

\* CVE_RE.findall(s): the matches of \bCVE-\d{4}-\d{4,7}\b (any case) in s.
CVE_RE_findall(s) ==
  CASE s \in {"CVE-2024-0001", "cve-2024-0001"} -> {s}
    [] s \in {"CVE-2024-0002", "cve-2024-0002"} -> {s}
    [] s \in {"CVE-2024-0003", "cve-2024-0003"} -> {s}
    [] s = "see cve-2024-0003 advisory" -> {"cve-2024-0003"}
    [] OTHER -> {}

\* CVE_RE.fullmatch(s)
CVE_RE_fullmatch(s) == CVE_RE_findall(s) = {s}

\* {m.upper() for m in CVE_RE.findall(s)}
TokensOf(s) == {Upper(m) : m \in CVE_RE_findall(s)}

\* Outcome of an extractor: the identifier set, or raised.
Found(cves) == [raised |-> FALSE, cves |-> cves]
ExtractRaised == [raised |-> TRUE, cves |-> {}]

\* The outcomes of a loop joined: it raises when one pass raises.
Joined(outcomes) ==
  IF \E i \in DOMAIN outcomes : outcomes[i].raised THEN ExtractRaised
  ELSE Found(UNION {outcomes[i].cves : i \in DOMAIN outcomes})

\* One element v of a Trivy vulnerability list (comparator.py lines 79-85).
cmp_trivy_vuln(v) ==
  IF v.t = "obj" THEN
    LET direct == Get(v, "VulnerabilityID")
        nested == PyOr(Get(v, "vulnerability"), JObj(<<>>))
    IN IF ~Truthy(direct) /\ nested.t # "obj" THEN ExtractRaised
       ELSE LET vid == IF Truthy(direct) THEN direct ELSE Get(nested, "id") IN
         IF vid.t = "str" /\ CVE_RE_fullmatch(Upper(vid.s))
           THEN Found({Upper(vid.s)})
           ELSE Found({})
  ELSE IF v.t = "str" THEN Found(TokensOf(v.s))
  ELSE Found({})

\* One element r of "Results" (lines 77-85).
cmp_trivy_result(r) ==
  LET rr == PyOr(r, JObj(<<>>)) IN
    IF rr.t # "obj" THEN ExtractRaised
    ELSE LET vulns == PyOr(PyOr(Get(rr, "Vulnerabilities"), Get(rr, "vulnerabilities")),
                           JArr(<<>>))
             it == Iterate(vulns)
         IN IF ~it.ok THEN ExtractRaised
            ELSE Joined([i \in 1..Len(it.items) |-> cmp_trivy_vuln(it.items[i])])

\* extract_cves_trivy(js)
extract_cves_trivy(js) ==
  IF js.t # "obj" THEN Found({})
  ELSE LET results == PyOr(PyOr(Get(js, "Results"), Get(js, "results")), JArr(<<>>))
           it == Iterate(results)
       IN IF ~it.ok THEN ExtractRaised
          ELSE Joined([i \in 1..Len(it.items) |-> cmp_trivy_result(it.items[i])])

RECURSIVE StringValues(_)
\* The strings the deep scan of lines 110-126 reaches from a dict or list:
\* the string values and items at any depth, never the keys.
StringValues(j) ==
  CASE j.t = "obj" ->
         UNION {IF j.pairs[i][2].t = "str" THEN {j.pairs[i][2].s}
                ELSE StringValues(j.pairs[i][2]) : i \in 1..Len(j.pairs)}
    [] j.t = "arr" ->
         UNION {IF j.items[i].t = "str" THEN {j.items[i].s}
                ELSE StringValues(j.items[i]) : i \in 1..Len(j.items)}
    [] OTHER -> {}

\* One element v of the top-level vulnerability collection (lines 100-106).
cmp_clair_vuln(v) ==
  IF v.t = "obj" THEN
    LET vid == PyOr(Get(v, "id"), Get(v, "ID")) IN
      IF vid.t = "str" /\ CVE_RE_fullmatch(Upper(vid.s)) THEN Found({Upper(vid.s)})
      ELSE Found({})
  ELSE IF v.t = "str" THEN Found(TokensOf(v.s))
  ELSE Found({})

\* extract_cves_clair(js)
extract_cves_clair(js) ==
  IF js.t # "obj" THEN Found({})
  ELSE LET vulns == PyOr(PyOr(Get(js, "vulnerabilities"), Get(js, "Vulnerabilities")),
                         JArr(<<>>))
           it == Iterate(vulns)
       IN IF ~it.ok THEN ExtractRaised
          ELSE Joined([i \in 1..Len(it.items) |-> cmp_clair_vuln(it.items[i])]
                        \o <<Found(UNION {TokensOf(x) : x \in StringValues(js)})>>)

RECURSIVE AllStrings(_)
\* The strings json.dumps(js) writes: keys and string values at any depth.
AllStrings(j) ==
  CASE j.t = "str" -> {j.s}
    [] j.t = "obj" ->
         UNION {{j.pairs[i][1]} \cup AllStrings(j.pairs[i][2]) : i \in 1..Len(j.pairs)}
    [] j.t = "arr" -> UNION {AllStrings(j.items[i]) : i \in 1..Len(j.items)}
    [] OTHER -> {}

\* extract_cves_generic(js)
extract_cves_generic(js) == Found(UNION {TokensOf(x) : x \in AllStrings(js)})

\* extract_cves(tool, js)
extract_cves(tool, js) ==
  LET s == IF Lower(tool) = "trivy" THEN extract_cves_trivy(js)
           ELSE IF Lower(tool) = "clair" THEN extract_cves_clair(js)
           ELSE Found({})
  IN IF s.raised THEN s
     ELSE IF s.cves # {} THEN s
     ELSE extract_cves_generic(js)

(***************************************************************************)
(* comparator.py: the reports tree and the per-day index.                  *)
(***************************************************************************)
\* Largest number of report files under reports/ given to comparator.main.
MaxReports == 2

TOOLS == <<"trivy", "clair">>
ToolSet == {TOOLS[i] : i \in 1..Len(TOOLS)}
\* The date folders, images and identifiers of the model.  strptime takes
\* "1-1-2025" for the same day as "01-01-2025".
DateNames == {"31-12-2024", "01-01-2025", "1-1-2025", "03-01-2025"}
Images == {"imgA", "imgB"}
CveIds == {"CVE-2024-0001", "CVE-2024-0002"}

\* The documents the files of the tree may hold, by number in Docs.
CmpDocNumbers == {1, 9, 19, 20, 21}

\* reports/<tool>/<date>/<image>.json: a file is a slot <<tool, date, image>>.
\* imgA is scanned by both tools, imgB by trivy; the folder 1-1-2025 exists
\* under trivy.
Slots ==
  (ToolSet \X {"31-12-2024", "01-01-2025", "03-01-2025"} \X {"imgA"})
    \cup ({"trivy"} \X {"31-12-2024", "01-01-2025", "03-01-2025"} \X {"imgB"})
    \cup {<<"trivy", "1-1-2025", "imgA">>}

\* Trees in which trivy scanned imgA on each of three dates, so that main
\* compares two pairs of dates.
TimelineDocNumbers == {19, 20, 21}
TimelineTrees ==
  [{"trivy"} \X {"31-12-2024", "01-01-2025", "03-01-2025"} \X {"imgA"}
     -> TimelineDocNumbers]

\* The trees of the model: at most MaxReports files, or a three-day timeline.
Trees ==
  UNION {[D -> CmpDocNumbers] :
           D \in {E \in SUBSET Slots : Cardinality(E) <= MaxReports}}
    \cup TimelineTrees

\* find_tool_dates(): per tool, the folder names that parse as a date.
find_tool_dates(tree) ==
  [tool \in {s[1] : s \in DOMAIN tree} |->
     {s[2] : s \in {u \in DOMAIN tree :
                      u[1] = tool /\ parse_date_folder(u[2]).ok}}]

\* all_dates: the union over the tools (comparator.py lines 268-270)
AllDates(tree) ==
  UNION {find_tool_dates(tree)[tool] : tool \in DOMAIN find_tool_dates(tree)}

\* What build_day_index gets from the file in slot s: load_json, extract_cves.
FileCves(tree, s) ==
  LET js == load_json(Docs[tree[s]]) IN
    IF js.none THEN [none |-> TRUE, raised |-> FALSE, cves |-> {}]
    ELSE [none |-> FALSE, raised |-> extract_cves(s[1], js.js).raised,
          cves |-> extract_cves(s[1], js.js).cves]

\* build_day_index(date_str) raises when extract_cves raises on a file.
build_day_index_raises(tree, date_str) ==
  \E s \in DOMAIN tree : s[2] = date_str /\ s[1] \in ToolSet /\ FileCves(tree, s).raised

\* build_day_index(date_str): tool -> image -> set(CVE).  A tool is a key once
\* one of its files of that day loads; a file that fails to load is skipped.
build_day_index(tree, date_str) ==
  LET loaded(tool) ==
        {s \in DOMAIN tree :
           s[1] = tool /\ s[2] = date_str /\ ~FileCves(tree, s).none}
  IN [tool \in {t \in ToolSet : loaded(t) # {}} |->
        [img \in {s[3] : s \in loaded(tool)} |->
           FileCves(tree, <<tool, date_str, img>>).cves]]

\* idx.get(tool, {})
ToolGet(idx, tool) == IF tool \in DOMAIN idx THEN idx[tool] ELSE <<>>
\* idx.get(tool, {}).get(img, set())
ImageGet(idx, tool, img) ==
  IF img \in DOMAIN ToolGet(idx, tool) THEN ToolGet(idx, tool)[img] ELSE {}

\* set().union(*images.values())
UnionOfImages(images) == UNION {images[i] : i \in DOMAIN images}

\* collect_daily_totals(date_str, idx), in the order idx.items() yields
collect_daily_totals(date_str, idx) ==
  LET present == SelectSeq(TOOLS, LAMBDA t : t \in DOMAIN idx) IN
    [i \in 1..Len(present) |->
       [date |-> date_str, tool |-> present[i],
        total_cves |-> Cardinality(UnionOfImages(idx[present[i]]))]]

(***************************************************************************)
(* comparator.py: compare_day_pair.                                        *)
(***************************************************************************)
\* The sample columns keep at most this many identifiers.
SampleLimit == 5

\* Added without the subtraction: every identifier of the newer day.
Added_Everything(old, new) == new
\* Removed with the operands exchanged: the same set as Added.
Removed_Swapped(old, new) == new \ old
\* RowEmitted looking at the added set alone.
RowEmitted_OnlyAdded(add, rem) == add # {}

\* add = new - old
Added(old, new) == new \ old
\* rem = old - new
Removed(old, new) == old \ new
\* if add or rem
RowEmitted(add, rem) == add # {} \/ rem # {}

\* sorted(list(ids))[:5]
Sample(ids) == SubSeq(Sorted(ids), 1, IF Cardinality(ids) < SampleLimit
                                        THEN Cardinality(ids) ELSE SampleLimit)

\* tools = sorted(set(idx1.keys()) | set(idx2.keys()))
PairTools(idx1, idx2) == Sorted(DOMAIN idx1 \cup DOMAIN idx2)
\* images = sorted(set(idx1.get(tool, {}).keys()) | set(idx2.get(tool, {}).keys()))
PairImages(idx1, idx2, tool) ==
  Sorted(DOMAIN ToolGet(idx1, tool) \cup DOMAIN ToolGet(idx2, tool))

\* The rows one tool appends, in image order (comparator.py lines 192-207).
ToolRows(d1, d2, idx1, idx2, tool) ==
  LET images == PairImages(idx1, idx2, tool)
      add(img) == Added(ImageGet(idx1, tool, img), ImageGet(idx2, tool, img))
      rem(img) == Removed(ImageGet(idx1, tool, img), ImageGet(idx2, tool, img))
      kept == SelectSeq(images, LAMBDA img : RowEmitted(add(img), rem(img)))
  IN [i \in 1..Len(kept) |->
        [from_date |-> d1, to_date |-> d2, tool |-> tool, image |-> kept[i],
         new_count |-> Cardinality(add(kept[i])),
         removed_count |-> Cardinality(rem(kept[i])),
         sample_new |-> Sample(add(kept[i])),
         sample_removed |-> Sample(rem(kept[i]))]]

\* ToolTotals adding len(add) to t_removed as well.
ToolTotals_RemovedCountsAdded(idx1, idx2, tool) ==
  LET images == PairImages(idx1, idx2, tool)
      n == SumSeq([i \in 1..Len(images) |->
                Cardinality(Added(ImageGet(idx1, tool, images[i]),
                                  ImageGet(idx2, tool, images[i])))])
  IN [new |-> n, removed |-> n]

\* t_new and t_removed of one tool (comparator.py lines 190-209)
ToolTotals(idx1, idx2, tool) ==
  LET images == PairImages(idx1, idx2, tool) IN
    [new |-> SumSeq([i \in 1..Len(images) |->
                Cardinality(Added(ImageGet(idx1, tool, images[i]),
                                  ImageGet(idx2, tool, images[i])))]),
     removed |-> SumSeq([i \in 1..Len(images) |->
                Cardinality(Removed(ImageGet(idx1, tool, images[i]),
                                    ImageGet(idx2, tool, images[i])))])]

\* compare_day_pair(d1, d2, idx1, idx2): the rows and the pair summary
compare_day_pair(d1, d2, idx1, idx2) ==
  LET tools == PairTools(idx1, idx2)
      per_tool_totals == [t \in DOMAIN idx1 \cup DOMAIN idx2 |->
                            ToolTotals(idx1, idx2, t)]
      trivy_set == UnionOfImages(ToolGet(idx2, "trivy"))
      clair_set == UnionOfImages(ToolGet(idx2, "clair"))
  IN [rows |-> Flatten([i \in 1..Len(tools) |->
                          ToolRows(d1, d2, idx1, idx2, tools[i])]),
      summary |->
        [from_date |-> d1, to_date |-> d2,
         union |-> Cardinality(trivy_set \cup clair_set),
         intersection |-> Cardinality(trivy_set \cap clair_set),
         only_trivy |-> Cardinality(trivy_set \ clair_set),
         only_clair |-> Cardinality(clair_set \ trivy_set),
         tool_totals |-> per_tool_totals,
         total_new |-> SumSeq([i \in 1..Len(tools) |->
                                 per_tool_totals[tools[i]].new]),
         total_removed |-> SumSeq([i \in 1..Len(tools) |->
                                     per_tool_totals[tools[i]].removed])]]

(***************************************************************************)
(* comparator.py: first-seen index and leadership.                         *)
(***************************************************************************)
\* FirstSeenUpdate without the membership test: the latest date wins.
FirstSeenUpdate_Overwrite(fs, key, date) ==
  [k \in DOMAIN fs \cup {key} |-> IF k = key THEN date ELSE fs[k]]

\* if key not in first_seen: first_seen[key] = date   (lines 293-294)
FirstSeenUpdate(fs, key, date) ==
  IF key \in DOMAIN fs THEN fs
  ELSE [k \in DOMAIN fs \cup {key} |-> IF k = key THEN date ELSE fs[k]]

\* The decision of lines 354-359.
LeadingTool(diff) ==
  IF diff = 0 THEN "tie" ELSE IF diff < 0 THEN "trivy" ELSE "clair"

\* The row of one identifier seen by both tools (lines 351-367).
FirstRow(cve, dt_t, dt_c) ==
  [cve |-> cve, first_trivy |-> strftime(dt_t), first_clair |-> strftime(dt_c),
   leading_tool |-> LeadingTool(DayDiff(dt_t, dt_c)),
   day_diff |-> DayDiff(dt_t, dt_c)]

\* FirstKeys without the merge per identifier: one entry per key of first_seen.
FirstKeys_Repeating(keys) == [i \in 1..Len(keys) |-> keys[i][2]]

RECURSIVE FirstKeys(_)
\* The keys of cve_to_first in insertion order: each identifier at its first
\* place in the key order of first_seen (lines 345-346).
FirstKeys(keys) ==
  IF keys = <<>> THEN <<>>
  ELSE LET front == FirstKeys(SubSeq(keys, 1, Len(keys) - 1))
           cve == keys[Len(keys)][2]
       IN IF \E i \in 1..Len(front) : front[i] = cve THEN front
          ELSE Append(front, cve)

\* first_rows (lines 348-367)
FirstRows(fs, keys) ==
  LET both == SelectSeq(FirstKeys(keys),
                        LAMBDA c : <<"trivy", c>> \in DOMAIN fs
                                   /\ <<"clair", c>> \in DOMAIN fs)
  IN [i \in 1..Len(both) |->
        FirstRow(both[i], fs[<<"trivy", both[i]>>], fs[<<"clair", both[i]>>])]

(***************************************************************************)
(* sum_plots.py: the merge of records into identifier -> severity maps.    *)
(***************************************************************************)
\* sev_rank(sev): order.get(sev, 0)
sev_rank(sev) ==
  CASE sev = "CRITICAL" -> 4
    [] sev = "HIGH" -> 3
    [] sev = "MEDIUM" -> 2
    [] sev = "LOW" -> 1
    [] sev = "UNKNOWN" -> 0
    [] OTHER -> 0

\* Largest number of report files under reports/ given to sum_plots.main.
MaxSumReports == 2

\* The documents the files of that tree may hold, by number in Docs.
SumDocNumbers == {1, 5, 6, 11, 13, 18}

\* The trees sum_plots.main walks: at most MaxSumReports files.
SumTrees ==
  UNION {[D -> SumDocNumbers] :
           D \in {E \in SUBSET Slots : Cardinality(E) <= MaxSumReports}}

\* find_dates(): the date folders under reports/<tool>/ for the tools of TOOLS.
find_dates(tree) ==
  {s[2] : s \in {u \in DOMAIN tree : u[1] \in ToolSet /\ parse_date_folder(u[2]).ok}}

\* The files in the order the loops of lines 79-85 reach them: by date, by
\* tool in the order of TOOLS, by file name.
WalkOrder(tree, dts) ==
  Flatten([d \in 1..Len(dts) |->
    Flatten([t \in 1..Len(TOOLS) |->
      SelectSeq([i \in 1..Len(SortedStems) |-> <<TOOLS[t], dts[d], SortedStems[i]>>],
                LAMBDA slot : slot \in DOMAIN tree)])])

\* jp = reports/<tool>/<date>/<image>.json
ReportPath(slot) == [dirs |-> <<"reports", slot[1], slot[2]>>, stem |-> slot[3]]

\* MergeSeverity with the comparison turned round: the lower rank wins.
MergeSeverity_LowerWins(cve_map, vid, sev) ==
  IF vid \notin DOMAIN cve_map \/ sev_rank(sev) < sev_rank(cve_map[vid])
    THEN [k \in DOMAIN cve_map \cup {vid} |-> IF k = vid THEN sev ELSE cve_map[k]]
    ELSE cve_map

\* MergeSeverity storing every severity it is given: the last one wins.
MergeSeverity_LastWins(cve_map, vid, sev) ==
  [k \in DOMAIN cve_map \cup {vid} |-> IF k = vid THEN sev ELSE cve_map[k]]

\* prev_sev = m.get(vid); if prev_sev is None or sev_rank(sev) > sev_rank(prev_sev):
\* m[vid] = sev   (lines 102-104 and 108-110)
MergeSeverity(cve_map, vid, sev) ==
  IF vid \notin DOMAIN cve_map \/ sev_rank(sev) > sev_rank(cve_map[vid])
    THEN [k \in DOMAIN cve_map \cup {vid} |-> IF k = vid THEN sev ELSE cve_map[k]]
    ELSE cve_map

\* The merge into the map a defaultdict(dict) holds under key.
MergeUnder(maps, key, vid, sev) ==
  LET prev == IF key \in DOMAIN maps THEN maps[key] ELSE <<>> IN
    [k \in DOMAIN maps \cup {key} |->
       IF k = key THEN MergeSeverity(prev, vid, sev) ELSE maps[k]]

\* The row of one (tool, image) in summary_unique_per_image.csv (lines 117-135).
UniqueRow(tool, image, cve_map) ==
  LET counts == [b \in SevSet |->
        Cardinality({v \in DOMAIN cve_map :
                       (IF cve_map[v] \in SevSet THEN cve_map[v] ELSE "UNKNOWN") = b})]
  IN [tool |-> tool, image |-> image, counts |-> counts,
      total_cves |-> SumCounts(counts), risk |-> risk_score(counts)]

\* rows_per_image over sorted(overall_image_cves.items())
UniqueRows(maps) ==
  LET byTool == Sorted(ToolSet)
      keys == Flatten([t \in 1..Len(byTool) |->
                SelectSeq([i \in 1..Len(SortedStems) |-> <<byTool[t], SortedStems[i]>>],
                          LAMBDA k : k \in DOMAIN maps)])
  IN [i \in 1..Len(keys) |-> UniqueRow(keys[i][1], keys[i][2], maps[keys[i]])]

(***************************************************************************)
(* State.                                                                  *)
(***************************************************************************)
VARIABLES
  \* aggregate.main
  files,          \* the batch: path number -> document number
  cursor,         \* the last path number the loop of line 123 has passed
  loaded,         \* what load_items returned for the latest file
  metrics_rows,   \* metrics_rows
  agree_map,      \* agree_map: image -> [trivy, clair]
  bad,            \* bad: the paths skipped
  agree_rows,     \* the rows written to agreement.csv
  pcA,            \* "scan", "done", "raised" (an exception left main), "idle"
  \* comparator.main
  reports,        \* the tree under reports/: slot -> file content
  dates,          \* dates
  day_indexes,    \* day_indexes: date -> index
  daily_total_rows,
  first_seen,     \* first_seen: <<tool, cve>> -> date
  first_keys,     \* the keys of first_seen in insertion order
  foldAt,         \* position in dates of the loop of line 286
  foldSeen,       \* the <<tool, image, cve>> that loop has visited for that date
  pairAt,         \* i of the loop of line 308
  pair_rows,
  pair_summary,   \* pair_summary of the latest pass of that loop
  uni_int_rows,
  daily_change_rows,
  grand_new,
  grand_removed,
  first_rows,
  pcC,            \* "start", "build", "fold", "compare", "done", "exit",
                  \* "raised" (an exception left main), "idle"
  \* sum_plots.main
  sum_reports,    \* the tree under reports/: slot -> document number
  sum_queue,      \* the files in the order the loops of line 79 reach them
  sum_file,       \* position in sum_queue of the file at hand
  sum_items,      \* items of that file, once load_items has returned
  sum_item,       \* position in sum_items of the loop of line 94; 0: not loaded
  overall_image_cves,  \* <<tool, image>> -> identifier -> severity
  daily_tool_cves,     \* <<date, tool>> -> identifier -> severity
  skipped,
  rows_per_image,
  pcS             \* "start", "walk", "done", "raised", "exit", "idle"

aggVars == <<files, cursor, loaded, metrics_rows, agree_map, bad, agree_rows, pcA>>
cmpVars == <<reports, dates, day_indexes, daily_total_rows, first_seen,
             first_keys, foldAt, foldSeen, pairAt, pair_rows, pair_summary, uni_int_rows,
             daily_change_rows, grand_new, grand_removed, first_rows, pcC>>
sumVars == <<sum_reports, sum_queue, sum_file, sum_items, sum_item,
             overall_image_cves, daily_tool_cves, skipped, rows_per_image, pcS>>
vars == <<aggVars, cmpVars, sumVars>>

\* pair_summary before the first pair is compared
NoSummary ==
  [from_date |-> "", to_date |-> "", union |-> 0, intersection |-> 0,
   only_trivy |-> 0, only_clair |-> 0, tool_totals |-> <<>>, total_new |-> 0,
   total_removed |-> 0]

NotLoaded == [path |-> 0, raised |-> FALSE, tool |-> "none", items |-> <<>>]

\* aggregate.main before its loop, over a batch of at most MaxFiles files
AggStart ==
  /\ \E D \in SUBSET (1..NPaths) :
       /\ Cardinality(D) <= MaxFiles
       /\ files \in [D -> 1..NDocs]
  /\ cursor = 0
  /\ loaded = NotLoaded
  /\ metrics_rows = <<>>
  /\ agree_map = <<>>
  /\ bad = <<>>
  /\ agree_rows = <<>>
  /\ pcA = "scan"

AggIdle ==
  /\ files = <<>>
  /\ cursor = 0
  /\ loaded = NotLoaded
  /\ metrics_rows = <<>>
  /\ agree_map = <<>>
  /\ bad = <<>>
  /\ agree_rows = <<>>
  /\ pcA = "idle"

\* comparator.main before find_tool_dates, over a tree of the model
CmpStart ==
  /\ reports \in Trees
  /\ dates = <<>>
  /\ day_indexes = <<>>
  /\ daily_total_rows = <<>>
  /\ first_seen = <<>>
  /\ first_keys = <<>>
  /\ foldAt = 1
  /\ foldSeen = {}
  /\ pairAt = 1
  /\ pair_rows = <<>>
  /\ pair_summary = NoSummary
  /\ uni_int_rows = <<>>
  /\ daily_change_rows = <<>>
  /\ grand_new = 0
  /\ grand_removed = 0
  /\ first_rows = <<>>
  /\ pcC = "start"

CmpIdle ==
  /\ reports = <<>>
  /\ dates = <<>>
  /\ day_indexes = <<>>
  /\ daily_total_rows = <<>>
  /\ first_seen = <<>>
  /\ first_keys = <<>>
  /\ foldAt = 1
  /\ foldSeen = {}
  /\ pairAt = 1
  /\ pair_rows = <<>>
  /\ pair_summary = NoSummary
  /\ uni_int_rows = <<>>
  /\ daily_change_rows = <<>>
  /\ grand_new = 0
  /\ grand_removed = 0
  /\ first_rows = <<>>
  /\ pcC = "idle"

\* sum_items while no file is at hand
NoItems == [tool |-> "none", items |-> <<>>]

\* sum_plots.main before find_dates, over a tree of the model
SumStart ==
  /\ sum_reports \in SumTrees
  /\ sum_queue = <<>>
  /\ sum_file = 1
  /\ sum_items = NoItems
  /\ sum_item = 0
  /\ overall_image_cves = <<>>
  /\ daily_tool_cves = <<>>
  /\ skipped = <<>>
  /\ rows_per_image = <<>>
  /\ pcS = "start"

SumIdle ==
  /\ sum_reports = <<>>
  /\ sum_queue = <<>>
  /\ sum_file = 1
  /\ sum_items = NoItems
  /\ sum_item = 0
  /\ overall_image_cves = <<>>
  /\ daily_tool_cves = <<>>
  /\ skipped = <<>>
  /\ rows_per_image = <<>>
  /\ pcS = "idle"

(***************************************************************************)
(* aggregate.main                                                          *)
(***************************************************************************)
\* The metrics row of one loaded file (lines 131-140).
MetricsRow(image, tool, items) ==
  [image |-> image, tool |-> tool, counts |-> severity_counts(items),
   total |-> SumCounts(severity_counts(items)),
   risk |-> risk_score(severity_counts(items))]

\* One pass of the loop of line 123 over the next path of the batch.  An
\* exception raised by load_items is caught nowhere and ends main.
AggScanFile ==
  /\ pcA = "scan"
  /\ \E p \in DOMAIN files :
       /\ p > cursor
       /\ \A q \in DOMAIN files : q > cursor => p <= q
       /\ LET r == load_items(Paths[p], Docs[files[p]])
              image == Paths[p].stem
          IN /\ cursor' = p
             /\ loaded' = [path |-> p, raised |-> r.raised, tool |-> r.tool,
                           items |-> r.items]
             /\ IF r.raised \/ severity_counts_raises(r.items)
                  THEN /\ pcA' = "raised"
                       /\ UNCHANGED <<metrics_rows, agree_map, bad>>
                ELSE IF r.tool = "none"
                  THEN /\ bad' = Append(bad, p)
                       /\ UNCHANGED <<metrics_rows, agree_map, pcA>>
                ELSE /\ metrics_rows' =
                          Append(metrics_rows, MetricsRow(image, r.tool, r.items))
                     /\ agree_map' =
                          AgreeUpdate(agree_map, image, r.tool, ItemIds(r.items))
                     /\ UNCHANGED <<bad, pcA>>
  /\ UNCHANGED <<files, agree_rows>>
  /\ UNCHANGED <<cmpVars, sumVars>>

\* After the loop: metrics.csv, agreement.csv and the skip list are written
\* (lines 147-185).
AggWriteOutputs ==
  /\ pcA = "scan"
  /\ \A q \in DOMAIN files : q <= cursor
  /\ LET images == SelectSeq(SortedStems, LAMBDA i : i \in DOMAIN agree_map) IN
       agree_rows' = [k \in 1..Len(images) |->
                        AgreementRow(images[k], agree_map[images[k]])]
  /\ pcA' = "done"
  /\ UNCHANGED <<files, cursor, loaded, metrics_rows, agree_map, bad>>
  /\ UNCHANGED <<cmpVars, sumVars>>

InitAgg == AggStart /\ CmpIdle /\ SumIdle
NextAgg == AggScanFile \/ AggWriteOutputs
SpecAgg == InitAgg /\ [][NextAgg]_vars

(***************************************************************************)
(* comparator.main                                                         *)
(***************************************************************************)
\* Lines 265-274: the dates in order; no date at all ends the program.
CmpFindDates ==
  /\ pcC = "start"
  /\ \E q \in SortedByDate(AllDates(reports)) : dates' = q
  /\ pcC' = IF Len(dates') < 1 THEN "exit" ELSE "build"
  /\ UNCHANGED <<reports, day_indexes, daily_total_rows, first_seen, first_keys,
                 foldAt, foldSeen, pairAt, pair_rows, pair_summary, uni_int_rows,
                 daily_change_rows, grand_new, grand_removed, first_rows>>
  /\ UNCHANGED <<aggVars, sumVars>>

\* One pass of the loop of line 279.  An exception extract_cves raises is
\* caught nowhere and ends main.
CmpBuildDay ==
  /\ pcC = "build"
  /\ LET d == dates[Len(daily_total_rows) + 1]
         idx == build_day_index(reports, d)
     IN IF build_day_index_raises(reports, d)
          THEN /\ pcC' = "raised"
               /\ UNCHANGED <<day_indexes, daily_total_rows>>
          ELSE /\ day_indexes' = [n \in DOMAIN day_indexes \cup {d} |->
                                    IF n = d THEN idx ELSE day_indexes[n]]
               /\ daily_total_rows' =
                    Append(daily_total_rows, collect_daily_totals(d, idx))
               /\ pcC' = IF Len(daily_total_rows') = Len(dates) THEN "fold"
                         ELSE "build"
  /\ UNCHANGED <<reports, dates, first_seen, first_keys, foldAt, foldSeen, pairAt,
                 pair_rows, pair_summary, uni_int_rows, daily_change_rows, grand_new,
                 grand_removed, first_rows>>
  /\ UNCHANGED <<aggVars, sumVars>>

\* The <<tool, image, cve>> the loops of lines 288-291 have yet to visit for
\* the date at foldAt.
FoldLeft ==
  LET idx == day_indexes[dates[foldAt]] IN
    {v \in ToolSet \X Images \X CveIds :
       /\ v[1] \in DOMAIN idx
       /\ v[2] \in DOMAIN idx[v[1]]
       /\ v[3] \in idx[v[1]][v[2]]} \ foldSeen

\* v comes before w in the order those loops visit: tools as idx.items() holds
\* them (trivy was inserted first), images in name order.
FoldBefore(v, w) ==
  \/ v[1] = "trivy" /\ w[1] = "clair"
  \/ /\ v[1] = w[1]
     /\ \E i, j \in 1..Len(SortedStems) :
          i < j /\ SortedStems[i] = v[2] /\ SortedStems[j] = w[2]

\* One pass of the innermost loop of line 291: the next identifier of the
\* current image's set, a set iterating in any order.
CmpFoldVisit ==
  /\ pcC = "fold"
  /\ \E v \in FoldLeft :
       /\ \A w \in FoldLeft : ~FoldBefore(w, v)
       /\ first_seen' = FirstSeenUpdate(first_seen, <<v[1], v[3]>>,
                                        parse_date_folder(dates[foldAt]))
       /\ first_keys' = IF <<v[1], v[3]>> \in DOMAIN first_seen THEN first_keys
                        ELSE Append(first_keys, <<v[1], v[3]>>)
       /\ foldSeen' = foldSeen \cup {v}
  /\ UNCHANGED <<reports, dates, day_indexes, daily_total_rows, foldAt, pairAt,
                 pair_rows, pair_summary, uni_int_rows, daily_change_rows, grand_new,
                 grand_removed, first_rows, pcC>>
  /\ UNCHANGED <<aggVars, sumVars>>

\* The loop of line 286 moves to the next date, or ends.
CmpFoldNextDate ==
  /\ pcC = "fold"
  /\ FoldLeft = {}
  /\ foldAt' = foldAt + 1
  /\ foldSeen' = {}
  /\ pcC' = IF foldAt' > Len(dates) THEN "compare" ELSE "fold"
  /\ UNCHANGED <<reports, dates, day_indexes, daily_total_rows, first_seen,
                 first_keys, pairAt, pair_rows, pair_summary, uni_int_rows, daily_change_rows,
                 grand_new, grand_removed, first_rows>>
  /\ UNCHANGED <<aggVars, sumVars>>

\* tnew and trem of lines 315-316
ChangeRow(d1, d2, summary, tool) ==
  [from_date |-> d1, to_date |-> d2, tool |-> tool,
   new_total |-> IF tool \in DOMAIN summary.tool_totals
                   THEN summary.tool_totals[tool].new ELSE 0,
   removed_total |-> IF tool \in DOMAIN summary.tool_totals
                       THEN summary.tool_totals[tool].removed ELSE 0]

\* One pass of the loop of line 308.
CmpComparePair ==
  /\ pcC = "compare"
  /\ pairAt <= Len(dates) - 1
  /\ LET d1 == dates[pairAt]
         d2 == dates[pairAt + 1]
         r == compare_day_pair(d1, d2, day_indexes[d1], day_indexes[d2])
     IN /\ pair_rows' = pair_rows \o r.rows
        /\ pair_summary' = r.summary
        /\ daily_change_rows' = daily_change_rows
               \o [i \in 1..Len(TOOLS) |-> ChangeRow(d1, d2, r.summary, TOOLS[i])]
        /\ uni_int_rows' = Append(uni_int_rows,
               [from_date |-> d1, to_date |-> d2, union |-> r.summary.union,
                intersection |-> r.summary.intersection,
                only_trivy |-> r.summary.only_trivy,
                only_clair |-> r.summary.only_clair])
        /\ grand_new' = grand_new + r.summary.total_new
        /\ grand_removed' = grand_removed + r.summary.total_removed
  /\ pairAt' = pairAt + 1
  /\ UNCHANGED <<reports, dates, day_indexes, daily_total_rows, first_seen,
                 first_keys, foldAt, foldSeen, first_rows, pcC>>
  /\ UNCHANGED <<aggVars, sumVars>>

\* Lines 341-371: the leadership rows, after the last pair.
CmpFirstSeenRows ==
  /\ pcC = "compare"
  /\ pairAt > Len(dates) - 1
  /\ first_rows' = FirstRows(first_seen, first_keys)
  /\ pcC' = "done"
  /\ UNCHANGED <<reports, dates, day_indexes, daily_total_rows, first_seen,
                 first_keys, foldAt, foldSeen, pairAt, pair_rows, pair_summary, uni_int_rows,
                 daily_change_rows, grand_new, grand_removed>>
  /\ UNCHANGED <<aggVars, sumVars>>

InitCmp == AggIdle /\ CmpStart /\ SumIdle
NextCmp ==
  \/ CmpFindDates
  \/ CmpBuildDay
  \/ CmpFoldVisit
  \/ CmpFoldNextDate
  \/ CmpComparePair
  \/ CmpFirstSeenRows
SpecCmp == InitCmp /\ [][NextCmp]_vars

(***************************************************************************)
(* sum_plots.main                                                          *)
(***************************************************************************)
\* Lines 65-67: the dates in order; no date at all ends the program.
SumFindDates ==
  /\ pcS = "start"
  /\ \E dts \in SortedByDate(find_dates(sum_reports)) :
       /\ sum_queue' = WalkOrder(sum_reports, dts)
       /\ pcS' = IF dts = <<>> THEN "exit" ELSE "walk"
  /\ UNCHANGED <<sum_reports, sum_file, sum_items, sum_item, overall_image_cves,
                 daily_tool_cves, skipped, rows_per_image>>
  /\ UNCHANGED <<aggVars, cmpVars>>

\* Lines 85-91: load_items on the next file.  An exception it raises is
\* caught nowhere and ends main; a file that gives no document is skipped.
SumLoadFile ==
  /\ pcS = "walk"
  /\ sum_file <= Len(sum_queue)
  /\ sum_item = 0
  /\ LET slot == sum_queue[sum_file]
         r == load_items(ReportPath(slot), Docs[sum_reports[slot]])
     IN IF r.raised
          THEN /\ pcS' = "raised"
               /\ UNCHANGED <<sum_file, sum_items, sum_item, skipped>>
        ELSE IF r.tool = "none"
          THEN /\ skipped' = Append(skipped, slot)
               /\ sum_file' = sum_file + 1
               /\ UNCHANGED <<sum_items, sum_item, pcS>>
        ELSE IF r.items = <<>>
          THEN /\ sum_file' = sum_file + 1
               /\ UNCHANGED <<sum_items, sum_item, skipped, pcS>>
        ELSE /\ sum_items' = [tool |-> r.tool, items |-> r.items]
             /\ sum_item' = 1
             /\ UNCHANGED <<sum_file, skipped, pcS>>
  /\ UNCHANGED <<sum_reports, sum_queue, overall_image_cves, daily_tool_cves,
                 rows_per_image>>
  /\ UNCHANGED <<aggVars, cmpVars>>

\* One pass of the loop of line 94: the record is merged into both maps.
SumMergeItem ==
  /\ pcS = "walk"
  /\ sum_item >= 1
  /\ LET slot == sum_queue[sum_file]
         it == sum_items.items[sum_item]
     IN IF it.id = ""
          THEN UNCHANGED <<overall_image_cves, daily_tool_cves>>
          ELSE /\ overall_image_cves' =
                    MergeUnder(overall_image_cves, <<sum_items.tool, slot[3]>>,
                               it.id, it.severity)
               /\ daily_tool_cves' =
                    MergeUnder(daily_tool_cves, <<slot[2], sum_items.tool>>,
                               it.id, it.severity)
  /\ IF sum_item = Len(sum_items.items)
       THEN /\ sum_file' = sum_file + 1
            /\ sum_item' = 0
            /\ sum_items' = NoItems
       ELSE /\ sum_item' = sum_item + 1
            /\ UNCHANGED <<sum_file, sum_items>>
  /\ UNCHANGED <<sum_reports, sum_queue, skipped, rows_per_image, pcS>>
  /\ UNCHANGED <<aggVars, cmpVars>>

\* Lines 115-136, after the walk: the rows of summary_unique_per_image.csv.
SumWriteRows ==
  /\ pcS = "walk"
  /\ sum_file > Len(sum_queue)
  /\ rows_per_image' = UniqueRows(overall_image_cves)
  /\ pcS' = "done"
  /\ UNCHANGED <<sum_reports, sum_queue, sum_file, sum_items, sum_item,
                 overall_image_cves, daily_tool_cves, skipped>>
  /\ UNCHANGED <<aggVars, cmpVars>>

InitSum == AggIdle /\ CmpIdle /\ SumStart
NextSum == SumFindDates \/ SumLoadFile \/ SumMergeItem \/ SumWriteRows
SpecSum == InitSum /\ [][NextSum]_vars

(***************************************************************************)
(* Properties of aggregate.py (checked under SpecAgg).                     *)
(***************************************************************************)
\* What load_items gives for the file at path number p of the batch.
LoadOf(p) == load_items(Paths[p], Docs[files[p]])
\* The files of the batch that read_json cannot turn into a document.
FailedPaths == {p \in DOMAIN files : read_json(Docs[files[p]]).none}
\* The identifiers the files of one tool report for one image.
Reported(tool, image) ==
  UNION {ItemIds(LoadOf(p).items) :
           p \in {q \in DOMAIN files :
                    Paths[q].stem = image /\ LoadOf(q).tool = tool}}

\* C1: for every successfully parsed JSON document, of any shape, load_items
\* returns (tool, records) or (None, []) and never raises.
C1_LoadItemsNeverRaises ==
  loaded.path # 0 =>
    /\ ~loaded.raised
    /\ loaded.tool \in {"trivy", "clair", "none"}
    /\ loaded.tool = "none" => loaded.items = <<>>

\* The paths of the batch in order, those of FailedPaths left out or kept.
PathsInOrder(keep) ==
  SelectSeq([i \in 1..NPaths |-> i], LAMBDA p : p \in DOMAIN files /\ keep[p])

\* C2: a batch in which some documents are unreadable, empty or malformed is
\* run to completion; each such document is in the skip list and gives no row
\* and no identifier, and every other document is reflected in the output as
\* if the failed ones were absent.
C2_BatchSurvivesBadFiles ==
  FailedPaths # {} =>
    /\ pcA # "raised"
    /\ pcA = "done" =>
         LET good == PathsInOrder([p \in 1..NPaths |-> p \notin FailedPaths])
             failed == PathsInOrder([p \in 1..NPaths |-> p \in FailedPaths])
         IN /\ bad = failed
            /\ metrics_rows = [i \in 1..Len(good) |->
                  MetricsRow(Paths[good[i]].stem, LoadOf(good[i]).tool,
                             LoadOf(good[i]).items)]
            /\ DOMAIN agree_map = {Paths[good[i]].stem : i \in 1..Len(good)}
            /\ \A image \in DOMAIN agree_map :
                 /\ agree_map[image].trivy = Reported("trivy", image)
                 /\ agree_map[image].clair = Reported("clair", image)

\* The part of C2 that the code does keep: a run that ends normally has
\* skipped exactly the failed files and reflects the others.
C2_WhenNothingRaises ==
  (FailedPaths # {} /\ pcA = "raised") \/ C2_BatchSurvivesBadFiles

\* C6: in every agreement row jaccard lies in [0, 1] (here in thousandths),
\* and it is exactly 1.0 when neither tool reports an identifier for the image.
C6_JaccardInUnitInterval ==
  \A i \in DOMAIN agree_rows :
    /\ agree_rows[i].jaccard >= 0
    /\ agree_rows[i].jaccard <= 1000
    /\ (Reported("trivy", agree_rows[i].image) = {}
          /\ Reported("clair", agree_rows[i].image) = {})
         => agree_rows[i].jaccard = 1000

\* Witness of C6: the outputs are written, one image has no identifier under
\* either tool (jaccard 1.0) and another has identifiers under one tool only
\* (jaccard 0.0).
C6_Witness ==
  /\ pcA = "done"
  /\ \E i, j \in DOMAIN agree_rows :
       /\ agree_rows[i].union = 0 /\ agree_rows[i].jaccard = 1000
       /\ agree_rows[j].union > 0 /\ agree_rows[j].jaccard = 0

\* C7: with A and B the identifier sets trivy and clair reported for the
\* image, the row has trivy_count = |A|, clair_count = |B|, both = |A \cap B|,
\* only_trivy = |A \ B|, only_clair = |B \ A|, union = |A \cup B| and jaccard
\* the quotient |A \cap B| / |A \cup B| rounded to three decimals.
C7_AgreementCounts ==
  \A i \in DOMAIN agree_rows :
    LET A == Reported("trivy", agree_rows[i].image)
        B == Reported("clair", agree_rows[i].image)
        row == agree_rows[i]
    IN /\ row.trivy_count = Cardinality(A)
       /\ row.clair_count = Cardinality(B)
       /\ row.both = Cardinality(A \cap B)
       /\ row.only_trivy = Cardinality(A \ B)
       /\ row.only_clair = Cardinality(B \ A)
       /\ row.union = Cardinality(A \cup B)
       /\ (A \cup B) # {} =>
            \* no multiple of 0.001 is nearer to the quotient
            LET off == 1000 * Cardinality(A \cap B)
                         - row.jaccard * Cardinality(A \cup B)
            IN 2 * off <= Cardinality(A \cup B) /\ -2 * off <= Cardinality(A \cup B)

\* Witness of C7 (scenario B): trivy reports {CVE-2024-0001, CVE-2024-0002}
\* and clair {CVE-2024-0002, CVE-2024-0003} for one image.
C7_Witness ==
  /\ pcA = "done"
  /\ \E i \in DOMAIN agree_rows :
       /\ Reported("trivy", agree_rows[i].image) = {"CVE-2024-0001", "CVE-2024-0002"}
       /\ Reported("clair", agree_rows[i].image) = {"CVE-2024-0002", "CVE-2024-0003"}
       /\ agree_rows[i].union = 3
       /\ agree_rows[i].both = 1
       /\ agree_rows[i].jaccard = 333
       /\ agree_rows[i].only_trivy = 1
       /\ agree_rows[i].only_clair = 1

\* The severity of highest rank among the records of items that carry id.
HighestSeverity(items, id) ==
  CHOOSE sev \in {items[i].severity : i \in {j \in DOMAIN items : items[j].id = id}} :
    \A i \in DOMAIN items :
      items[i].id = id => sev_rank(items[i].severity) <= sev_rank(sev)

\* C12: the records of one (tool, image) scan from which the severity counts,
\* the total and the risk are computed hold no identifier twice: an identifier
\* the document reports more than once is counted once, under the
\* highest-ranked of its severities.
C12_ScanCountsEachIdentifierOnce ==
  (loaded.path # 0 /\ ~loaded.raised /\ loaded.tool # "none" /\ pcA # "raised") =>
    LET row == metrics_rows[Len(metrics_rows)]
        ids == ItemIds(loaded.items)
    IN /\ \A i, j \in DOMAIN loaded.items :
            loaded.items[i].id = loaded.items[j].id => i = j
       /\ row.total = Cardinality(ids)
       /\ \A k \in SevSet :
            row.counts[k] =
              Cardinality({id \in ids : HighestSeverity(loaded.items, id) = k})

(***************************************************************************)
(* Properties of sum_plots.py (checked under SpecSum).                     *)
(***************************************************************************)
\* The <<identifier, severity>> observations of the file in slot s: the
\* records load_items gives for it that carry an identifier.
ObservationsOf(s) ==
  LET r == load_items(ReportPath(s), Docs[sum_reports[s]]) IN
    {<<r.items[i].id, r.items[i].severity>> :
       i \in {j \in DOMAIN r.items : r.items[j].id # ""}}
\* The tool load_items attributes the file in slot s to.
ToolOf(s) == load_items(ReportPath(s), Docs[sum_reports[s]]).tool
\* All observations of one (tool, image), and of one (date, tool).
ObservedForImage(tool, image) ==
  UNION {ObservationsOf(s) :
           s \in {u \in DOMAIN sum_reports : ToolOf(u) = tool /\ u[3] = image}}
ObservedForDay(date, tool) ==
  UNION {ObservationsOf(s) :
           s \in {u \in DOMAIN sum_reports : ToolOf(u) = tool /\ u[2] = date}}
\* The map a set of observations determines whatever their order: each
\* identifier with the highest-ranked severity observed for it.
HighestObserved(obs) ==
  [id \in {o[1] : o \in obs} |->
     CHOOSE sev \in {o[2] : o \in {u \in obs : u[1] = id}} :
       \A o \in obs : o[1] = id => sev_rank(o[2]) <= sev_rank(sev)]
\* maps holds under key exactly what the observations obs determine.
HoldsHighest(maps, key, obs) ==
  IF obs = {} THEN key \notin DOMAIN maps
  ELSE key \in DOMAIN maps /\ maps[key] = HighestObserved(obs)

\* C13: the merge into the per-(tool, image) and per-(date, tool) maps does
\* not depend on the order of documents and records: whatever the order in
\* which the observations arrive, the final map gives each identifier the
\* highest-ranked severity observed for it.
C13_MergeIsOrderIndependent ==
  pcS = "done" =>
    /\ \A tool \in ToolSet, image \in Images :
         HoldsHighest(overall_image_cves, <<tool, image>>,
                      ObservedForImage(tool, image))
    /\ \A date \in DateNames, tool \in ToolSet :
         HoldsHighest(daily_tool_cves, <<date, tool>>, ObservedForDay(date, tool))

\* Witness of C13: the walk is over; an identifier was merged from two files
\* of one (tool, image), the earlier file carrying the higher-ranked
\* severity, which the map holds.
C13_Witness ==
  /\ pcS = "done"
  /\ \E i, j \in DOMAIN sum_queue :
       /\ i < j
       /\ sum_queue[i][1] = sum_queue[j][1]
       /\ sum_queue[i][3] = sum_queue[j][3]
       /\ \E a \in ObservationsOf(sum_queue[i]), b \in ObservationsOf(sum_queue[j]) :
            /\ a[1] = b[1]
            /\ sev_rank(a[2]) > sev_rank(b[2])
            /\ overall_image_cves[<<sum_queue[i][1], sum_queue[i][3]>>][a[1]] = a[2]

(***************************************************************************)
(* Properties of comparator.py (checked under SpecCmp).                    *)
(***************************************************************************)
\* The pairs the loop of line 308 has compared so far.
ComparedPairs == 1..(pairAt - 1)
\* The rows of pair_rows that belong to the pair of dates d1, d2.
RowsOfPair(d1, d2) ==
  {k \in DOMAIN pair_rows :
     pair_rows[k].from_date = d1 /\ pair_rows[k].to_date = d2}
\* The elements of a sequence.
Range(q) == {q[i] : i \in DOMAIN q}

\* C3: for every pair of day indexes compared and every (tool, image) the
\* added and the removed set are disjoint, and no identifier is counted in
\* both new_count and removed_count of a row.
C3_AddedRemovedDisjoint ==
  \A i \in ComparedPairs :
    LET idx1 == day_indexes[dates[i]]
        idx2 == day_indexes[dates[i + 1]]
    IN /\ \A tool \in ToolSet, img \in Images :
            Added(ImageGet(idx1, tool, img), ImageGet(idx2, tool, img))
              \cap Removed(ImageGet(idx1, tool, img), ImageGet(idx2, tool, img)) = {}
       /\ \A k \in RowsOfPair(dates[i], dates[i + 1]) :
            LET old == ImageGet(idx1, pair_rows[k].tool, pair_rows[k].image)
                new == ImageGet(idx2, pair_rows[k].tool, pair_rows[k].image)
            IN /\ Range(pair_rows[k].sample_new)
                    \cap Range(pair_rows[k].sample_removed) = {}
               /\ pair_rows[k].new_count + pair_rows[k].removed_count
                    = Cardinality((old \cup new) \ (old \cap new))

\* Witness of C3: a compared pair with a row that has both added and removed
\* identifiers.
C3_Witness ==
  \E k \in DOMAIN pair_rows :
    pair_rows[k].new_count > 0 /\ pair_rows[k].removed_count > 0

\* C4: compare_day_pair emits exactly one row for each (tool, image) of the
\* union of tools and images of the two indexes whose added or removed set is
\* not empty, and no other row; new_count = |ids2 - ids1| and removed_count =
\* |ids1 - ids2|, an absent tool or image counting as the empty set.
C4_OneRowPerChange ==
  /\ \A k \in DOMAIN pair_rows :
       \E i \in ComparedPairs :
         pair_rows[k].from_date = dates[i] /\ pair_rows[k].to_date = dates[i + 1]
  /\ \A i \in ComparedPairs :
       LET idx1 == day_indexes[dates[i]]
           idx2 == day_indexes[dates[i + 1]]
       IN \A tool \in ToolSet, img \in Images :
            LET ids1 == IF tool \in DOMAIN idx1 /\ img \in DOMAIN idx1[tool]
                          THEN idx1[tool][img] ELSE {}
                ids2 == IF tool \in DOMAIN idx2 /\ img \in DOMAIN idx2[tool]
                          THEN idx2[tool][img] ELSE {}
                rows == {k \in RowsOfPair(dates[i], dates[i + 1]) :
                           pair_rows[k].tool = tool /\ pair_rows[k].image = img}
            IN /\ Cardinality(rows) =
                    IF (ids2 \ ids1) \cup (ids1 \ ids2) # {} THEN 1 ELSE 0
               /\ \A k \in rows :
                    /\ pair_rows[k].new_count = Cardinality(ids2 \ ids1)
                    /\ pair_rows[k].removed_count = Cardinality(ids1 \ ids2)

\* Witness of C4: a compared pair with two rows, one for a tool absent from
\* the newer index (its identifiers all removed) and one for an image absent
\* from the older index (its identifiers all new).
C4_Witness ==
  \E i \in ComparedPairs :
    LET idx1 == day_indexes[dates[i]]
        idx2 == day_indexes[dates[i + 1]]
    IN \E k1, k2 \in RowsOfPair(dates[i], dates[i + 1]) :
         /\ pair_rows[k1].tool \notin DOMAIN idx2
         /\ pair_rows[k1].removed_count > 0
         /\ pair_rows[k1].new_count = 0
         /\ pair_rows[k2].image \notin DOMAIN ToolGet(idx1, pair_rows[k2].tool)
         /\ pair_rows[k2].new_count > 0
         /\ pair_rows[k2].removed_count = 0

\* C5: diffing a snapshot against itself (idx1 = idx2) yields no row, new and
\* removed totals of 0 for every tool, and total_new = total_removed = 0.
C5_SelfDiffIsEmpty ==
  (pairAt > 1 /\ day_indexes[dates[pairAt - 1]] = day_indexes[dates[pairAt]]) =>
    /\ RowsOfPair(dates[pairAt - 1], dates[pairAt]) = {}
    /\ pair_summary.from_date = dates[pairAt - 1]
    /\ \A tool \in DOMAIN pair_summary.tool_totals :
         /\ pair_summary.tool_totals[tool].new = 0
         /\ pair_summary.tool_totals[tool].removed = 0
    /\ pair_summary.total_new = 0
    /\ pair_summary.total_removed = 0

\* Witness of C5: the latest pair compared two equal indexes that hold
\* identifiers.
C5_Witness ==
  /\ pairAt > 1
  /\ day_indexes[dates[pairAt - 1]] = day_indexes[dates[pairAt]]
  /\ \E tool \in DOMAIN day_indexes[dates[pairAt]] :
       UnionOfImages(day_indexes[dates[pairAt]][tool]) # {}
  /\ pair_summary.tool_totals # <<>>

\* C8: while the timeline is folded into first_seen, an entry once set to a
\* date is changed by no later step, whatever the date, image and order.
C8_FirstSeenNeverOverwritten ==
  [][\A key \in DOMAIN first_seen :
       key \in DOMAIN first_seen' /\ first_seen'[key] = first_seen[key]]_vars

\* Witness of C8: the fold has visited an identifier on a date later than the
\* one its entry holds.
C8_Witness ==
  /\ pcC = "fold"
  /\ \E v \in foldSeen :
       /\ <<v[1], v[3]>> \in DOMAIN first_seen
       /\ first_seen[<<v[1], v[3]>>] # parse_date_folder(dates[foldAt])

\* The identifiers extract_cves finds under each tool in each document of the
\* model that loads; none for a document that does not load.
CvesByDoc ==
  [tool \in ToolSet, n \in CmpDocNumbers |->
     IF load_json(Docs[n]).none THEN {}
     ELSE extract_cves(tool, load_json(Docs[n]).js).cves]

\* a is the same day as b or an earlier one
NotAfter(a, b) ==
  \/ a.y < b.y
  \/ a.y = b.y /\ a.m < b.m
  \/ a.y = b.y /\ a.m = b.m /\ a.d <= b.d

\* The report files in which tool saw cve (a file that loads, in a dated folder).
SeenIn(tool, cve) ==
  {s \in DOMAIN reports :
     /\ s[1] = tool
     /\ parse_date_folder(s[2]).ok
     /\ cve \in CvesByDoc[tool, reports[s]]}

\* C9: after the whole timeline is processed, first_seen[(tool, id)] is
\* defined exactly when id occurs under that tool on some date, and is the
\* earliest calendar date on which it occurs under that tool in any image.
C9_FirstSeenIsEarliest ==
  pcC \in {"compare", "done"} =>
    \A tool \in ToolSet, cve \in CveIds :
      /\ <<tool, cve>> \in DOMAIN first_seen <=> SeenIn(tool, cve) # {}
      /\ SeenIn(tool, cve) # {} =>
           /\ \E s \in SeenIn(tool, cve) :
                first_seen[<<tool, cve>>] = parse_date_folder(s[2])
           /\ \A s \in SeenIn(tool, cve) :
                NotAfter(first_seen[<<tool, cve>>], parse_date_folder(s[2]))

\* Witness of C9: an identifier seen by one tool on 01-01-2025 in one image
\* and on 31-12-2024 in another has the entry 31-12-2024.
C9_Witness ==
  /\ pcC = "done"
  /\ \E tool \in ToolSet, cve \in CveIds :
       /\ \E s, u \in SeenIn(tool, cve) :
            s[2] = "01-01-2025" /\ u[2] = "31-12-2024" /\ s[3] # u[3]
       /\ first_seen[<<tool, cve>>] = [ok |-> TRUE, y |-> 2024, m |-> 12, d |-> 31]

\* C10: for every identifier seen under both tools the leadership row has
\* day_diff = firstSeen[trivy] - firstSeen[clair] in days, and leading_tool is
\* "tie" iff day_diff = 0, trivy iff day_diff < 0, clair iff day_diff > 0.
C10_LeadershipRule ==
  pcC = "done" =>
    /\ \A cve \in CveIds :
         (<<"trivy", cve>> \in DOMAIN first_seen
            /\ <<"clair", cve>> \in DOMAIN first_seen)
           => \E i \in DOMAIN first_rows : first_rows[i].cve = cve
    /\ \A i \in DOMAIN first_rows :
         LET row == first_rows[i] IN
           /\ <<"trivy", row.cve>> \in DOMAIN first_seen
           /\ <<"clair", row.cve>> \in DOMAIN first_seen
           /\ row.day_diff = ToOrdinal(first_seen[<<"trivy", row.cve>>])
                               - ToOrdinal(first_seen[<<"clair", row.cve>>])
           /\ row.leading_tool = "tie" <=> row.day_diff = 0
           /\ row.leading_tool = "trivy" <=> row.day_diff < 0
           /\ row.leading_tool = "clair" <=> row.day_diff > 0

\* Witness of C10 (scenario D): first seen by trivy on 01-01-2025 and by clair
\* on 03-01-2025: trivy leads, day_diff = -2.
C10_Witness ==
  /\ pcC = "done"
  /\ \E i \in DOMAIN first_rows :
       /\ first_rows[i].first_trivy = "01-01-2025"
       /\ first_rows[i].first_clair = "03-01-2025"
       /\ first_rows[i].leading_tool = "trivy"
       /\ first_rows[i].day_diff = -2

\* C11: the leadership output has exactly one row for each identifier seen
\* under both trivy and clair at any point of the timeline, and no row for an
\* identifier seen under one tool only.
C11_LeadershipRowsAreSharedIds ==
  pcC = "done" =>
    /\ {first_rows[i].cve : i \in DOMAIN first_rows}
         = {cve \in CveIds : SeenIn("trivy", cve) # {} /\ SeenIn("clair", cve) # {}}
    /\ \A i, j \in DOMAIN first_rows :
         first_rows[i].cve = first_rows[j].cve => i = j

\* Witness of C11: the run ends with a row for an identifier both tools saw
\* while another identifier, seen by one tool only, has none.
C11_Witness ==
  /\ pcC = "done"
  /\ \E shared, single \in CveIds :
       /\ SeenIn("trivy", shared) # {} /\ SeenIn("clair", shared) # {}
       /\ (SeenIn("trivy", single) # {}) # (SeenIn("clair", single) # {})
       /\ \E i \in DOMAIN first_rows : first_rows[i].cve = shared
       /\ \A i \in DOMAIN first_rows : first_rows[i].cve # single

\* The raw vulnerability entries of a document as pairs <<identifier, raw
\* severity>> ("" for no severity): the elements of a Trivy "Vulnerabilities"
\* list, and the values of a Clair "vulnerabilities" map with the CVE tokens
\* of their name and links.
TrivyEntries(js) ==
  IF js.t # "obj" \/ Get(js, "Results").t # "arr" THEN {}
  ELSE UNION {
    LET r == Get(js, "Results").items[i] IN
      IF r.t # "obj" \/ Get(r, "Vulnerabilities").t # "arr" THEN {}
      ELSE {<<Upper(Get(v, "VulnerabilityID").s),
              IF Get(v, "Severity").t = "str" THEN Get(v, "Severity").s ELSE "">> :
              v \in {w \in Range(Get(r, "Vulnerabilities").items) :
                       w.t = "obj" /\ Get(w, "VulnerabilityID").t = "str"}}
    : i \in 1..Len(Get(js, "Results").items)}
ClairEntries(js) ==
  IF js.t # "obj" \/ Get(js, "vulnerabilities").t # "obj" THEN {}
  ELSE UNION {
    LET v == Get(js, "vulnerabilities").pairs[i][2]
        field(k) == IF Get(v, k).t = "str" THEN Get(v, k).s ELSE ""
        sev == IF field("normalized_severity") # "" THEN field("normalized_severity")
               ELSE field("severity")
    IN IF v.t # "obj" THEN {}
       ELSE {<<id, sev>> : id \in TokensOf(field("name")) \cup TokensOf(field("links"))}
    : i \in 1..Len(Get(js, "vulnerabilities").pairs)}
IsNegligible(sev) == Lower(Strip(sev)) = "negligible"
\* The identifiers a document reports with a negligible severity only.
NegligibleOnlyIds(js) ==
  LET entries == TrivyEntries(js) \cup ClairEntries(js) IN
    {e[1] : e \in {x \in entries : IsNegligible(x[2])}}
      \ {e[1] : e \in {x \in entries : ~IsNegligible(x[2])}}
\* The document of the file in slot s of the tree of comparator.main.
DocOf(s) == load_json(Docs[reports[s]])

\* C14: an entry whose severity is negligible is dropped: its identifier
\* enters no per-image identifier set and no first-seen entry unless it is
\* also reported with another severity.
C14_NegligibleIsDropped ==
  /\ \A s \in DOMAIN reports :
       (~DocOf(s).none /\ s[2] \in DOMAIN day_indexes) =>
         ImageGet(day_indexes[s[2]], s[1], s[3]) \cap NegligibleOnlyIds(DocOf(s).js) = {}
  /\ \A key \in DOMAIN first_seen :
       \E s \in SeenIn(key[1], key[2]) : key[2] \notin NegligibleOnlyIds(DocOf(s).js)

\* The severities of the snapshot of slot s of the tree of comparator.main:
\* the records the normalizer gives for the file, each identifier under its
\* highest-ranked severity.
SnapshotSeverities(s) ==
  LET r == load_items(ReportPath(s), Docs[reports[s]]) IN
    IF r.raised THEN <<>>
    ELSE HighestObserved({<<r.items[i].id, r.items[i].severity>> :
                            i \in {j \in DOMAIN r.items : r.items[j].id # ""}})
\* The rows of the pair of dates d1, d2 that are severity-change events for
\* (tool, image, identifier).
SeverityEvents(d1, d2, tool, image, id) ==
  {k \in RowsOfPair(d1, d2) :
     /\ "delta_rank" \in DOMAIN pair_rows[k]
     /\ pair_rows[k].tool = tool
     /\ pair_rows[k].image = image
     /\ pair_rows[k].cve = id}

\* C16: for every pair of consecutive snapshots and every (tool, image), a
\* severity-change event is emitted for an identifier of both snapshots
\* exactly when its severity rank differs between them, with delta_rank =
\* newRank - oldRank and direction "up" for a higher and "down" for a lower
\* new rank.
C16_SeverityChangeEvents ==
  \A i \in ComparedPairs, tool \in ToolSet, image \in Images :
    LET s1 == <<tool, dates[i], image>>
        s2 == <<tool, dates[i + 1], image>>
    IN (s1 \in DOMAIN reports /\ s2 \in DOMAIN reports) =>
         \A id \in DOMAIN SnapshotSeverities(s1) \cap DOMAIN SnapshotSeverities(s2) :
           LET delta == sev_rank(SnapshotSeverities(s2)[id])
                          - sev_rank(SnapshotSeverities(s1)[id])
               events == SeverityEvents(dates[i], dates[i + 1], tool, image, id)
           IN /\ events # {} <=> delta # 0
              /\ \A k \in events :
                   /\ pair_rows[k].delta_rank = delta
                   /\ pair_rows[k].direction = IF delta > 0 THEN "up" ELSE "down"

(***************************************************************************)
(* Properties of the normalizer of aggregate.py (checked under SpecAgg).   *)
(***************************************************************************)
\* The document of the file load_items was last called on.
LoadedJs == read_json(Docs[files[loaded.path]]).js
\* load_items has returned records for a file.
HasLoaded == loaded.path # 0 /\ ~loaded.raised /\ loaded.tool # "none"
\* The raw entries of the loaded document in the shape of the tool it was
\* attributed to.
LoadedEntries ==
  IF loaded.tool = "trivy" THEN TrivyEntries(LoadedJs) ELSE ClairEntries(LoadedJs)
\* The bucket name a raw severity spells, whatever its casing.
Spelled(sev) == Upper(Title(Strip(sev)))

\* C15: every record the normalizer produces has a severity among CRITICAL,
\* HIGH, MEDIUM, LOW, UNKNOWN; an absent, empty or unrecognized raw severity
\* gives UNKNOWN, and severity_counts meets no severity outside its buckets.
C15_SeverityInFiveBuckets ==
  HasLoaded =>
    /\ \A i \in DOMAIN loaded.items : loaded.items[i].severity \in SevSet
    /\ ~severity_counts_raises(loaded.items)
    /\ pcA # "raised"
    /\ \A i \in DOMAIN loaded.items :
         loaded.items[i].severity # "UNKNOWN" =>
           \E e \in LoadedEntries : Spelled(e[2]) = loaded.items[i].severity
    /\ \A e \in LoadedEntries :
         (e[1] # "" /\ ~(loaded.tool = "clair" /\ IsNegligible(e[2]))
            /\ Spelled(e[2]) \notin SevSet)
           => \E i \in DOMAIN loaded.items :
                loaded.items[i] = [id |-> e[1], severity |-> "UNKNOWN"]

\* Witness of C15: records were produced from a Trivy report with an entry
\* whose severity is no bucket name and from one without severity, or from a
\* Clair report with such an entry; each became an UNKNOWN record.
C15_Witness ==
  /\ HasLoaded
  /\ \E e \in LoadedEntries :
       /\ e[2] # ""
       /\ ~IsNegligible(e[2]) \/ loaded.tool = "trivy"
       /\ Spelled(e[2]) \notin SevSet
       /\ \E i \in DOMAIN loaded.items :
            loaded.items[i] = [id |-> e[1], severity |-> "UNKNOWN"]
  /\ \E i \in DOMAIN metrics_rows : metrics_rows[i].counts["UNKNOWN"] > 0

(***************************************************************************)
(* Either program, started on any input of the model.                      *)
(***************************************************************************)
Init == InitAgg \/ InitCmp \/ InitSum
Next == NextAgg \/ NextCmp \/ NextSum
Spec == Init /\ [][Next]_vars

\* The loaded document has one of the two scanner shapes: a "Results" key, a
\* "vulnerabilities" map, or a top-level map of vulnerability objects.
KnownShape(js) ==
  /\ js.t = "obj"
  /\ \/ HasKey(js, "Results")
     \/ Get(js, "vulnerabilities").t = "obj"
     \/ LooksLikeVulnMap(js)

\* C17: a valid document of neither scanner shape is normalized by a scan of
\* the whole document for CVE-shaped tokens, one UNKNOWN record per distinct
\* token; with a token anywhere in it the record list is not empty.
C17_GenericFallback ==
  (HasLoaded /\ ~KnownShape(LoadedJs)) =>
    LET tokens == extract_cves_generic(LoadedJs).cves IN
      /\ Len(loaded.items) = Cardinality(tokens)
      /\ {loaded.items[i] : i \in DOMAIN loaded.items}
           = {[id |-> t, severity |-> "UNKNOWN"] : t \in tokens}

\* The severity-count vectors with counts up to MaxCount, and vector c with
\* the count of bucket k raised by one.
MaxCount == 2
CountVectors == [SevSet -> 0..MaxCount]
Raised1(c, k) == [c EXCEPT ![k] = @ + 1]
\* The risk of the formula of the specification, in halves:
\* 5 CRITICAL + 3 HIGH + 1 MEDIUM + 0.5 LOW + 0 UNKNOWN.
RiskFormula(c) ==
  10 * c["CRITICAL"] + 6 * c["HIGH"] + 2 * c["MEDIUM"] + c["LOW"]
\* risk_score agrees with the formula on c, does not decrease when one count
\* is raised, and does not change when UNKNOWN is raised.
RiskLawAt(c) ==
  /\ risk_score(c) = RiskFormula(c)
  /\ \A k \in SevSet : risk_score(Raised1(c, k)) >= risk_score(c)
  /\ risk_score(Raised1(c, "UNKNOWN")) = risk_score(c)
RiskLawOnVectors == \A c \in CountVectors : RiskLawAt(c)

\* C18: risk_score(c) = 5 CRITICAL + 3 HIGH + 1 MEDIUM + 0.5 LOW + 0 UNKNOWN
\* for every vector of counts, raising one count never lowers it, raising
\* UNKNOWN leaves it unchanged, and the counts written in a metrics row next
\* to the risk are the counts the risk was computed from.
C18_RiskScoreIsWeightedSum ==
  /\ RiskLawOnVectors
  /\ \A i \in DOMAIN metrics_rows :
       /\ metrics_rows[i].risk = RiskFormula(metrics_rows[i].counts)
       /\ RiskLawAt(metrics_rows[i].counts)
       /\ metrics_rows[i].total = SumCounts(metrics_rows[i].counts)
  /\ (HasLoaded /\ metrics_rows # <<>>) =>
       metrics_rows[Len(metrics_rows)].counts = severity_counts(loaded.items)

\* Witness of C18: a metrics row with a CRITICAL and a LOW record has the
\* risk 5.5, and one with an UNKNOWN record only has the risk 0.
C18_Witness ==
  /\ \E i \in DOMAIN metrics_rows :
       /\ metrics_rows[i].counts["CRITICAL"] = 1
       /\ metrics_rows[i].counts["LOW"] = 1
       /\ metrics_rows[i].risk = 11
  /\ \E i \in DOMAIN metrics_rows :
       /\ metrics_rows[i].counts["UNKNOWN"] >= 1
       /\ metrics_rows[i].risk = 0

\* The tool whose directory the file of a path is stored under: the tool named
\* by the innermost directory of the path that has a tool's name, in any
\* casing; "none" when no directory of the path has one.
DirectoryHint(path) ==
  LET named == {i \in 1..Len(path.dirs) : Lower(path.dirs[i]) \in ToolSet} IN
    IF named = {} THEN "none"
    ELSE Lower(path.dirs[CHOOSE i \in named : \A j \in named : j <= i])
\* The records the extractor of a tool gives for a document.
ExtractedBy(tool, js) ==
  IF tool = "trivy" THEN trivy_iter_items(js) ELSE clair_iter_items(js)

\* C19: a document stored under the directory of a tool is attributed to
\* that tool and parsed with its extractor, whatever its content and the
\* other components of its path; when the path names no tool, a top-level
\* "Results" key gives trivy and anything else clair.
C19_DirectoryHintPreferred ==
  HasLoaded =>
    LET hint == DirectoryHint(Paths[loaded.path]) IN
      /\ hint # "none" =>
           /\ loaded.tool = hint
           /\ ExtractedBy(hint, LoadedJs) = Yielded(loaded.items)
      /\ hint = "none" =>
           loaded.tool = IF LoadedJs.t = "obj" /\ HasKey(LoadedJs, "Results")
                           THEN "trivy" ELSE "clair"

\* The rows of uni_int_rows, one per call of compare_day_pair, for the pair
\* of dates d1, d2.
ComparisonsOf(d1, d2) ==
  {k \in DOMAIN uni_int_rows :
     uni_int_rows[k].from_date = d1 /\ uni_int_rows[k].to_date = d2}

\* C20: the dates comparator.main processes are strictly increasing by
\* calendar date, every compared pair has from_date strictly earlier than
\* to_date, and each pair of adjacent dates is compared exactly once.
C20_DatesStrictlyIncreasing ==
  /\ \A i, j \in DOMAIN dates : i < j => DateKey(dates[i]) < DateKey(dates[j])
  /\ \A k \in DOMAIN uni_int_rows :
       DateKey(uni_int_rows[k].from_date) < DateKey(uni_int_rows[k].to_date)
  /\ \A i \in ComparedPairs :
       Cardinality(ComparisonsOf(dates[i], dates[i + 1])) = 1
  /\ Len(uni_int_rows) = Cardinality(ComparedPairs)
  /\ pcC = "done" => Cardinality(ComparedPairs) = Len(dates) - 1

\* The sums of new_count and of removed_count over the rows of pair_rows
\* numbered in K.
SumNewCount(K) ==
  SumSeq([k \in DOMAIN pair_rows |-> IF k \in K THEN pair_rows[k].new_count ELSE 0])
SumRemovedCount(K) ==
  SumSeq([k \in DOMAIN pair_rows |-> IF k \in K THEN pair_rows[k].removed_count ELSE 0])
\* The rows compare_day_pair emitted for a tool in the latest pair.
LatestRowsOf(tool) ==
  {k \in RowsOfPair(pair_summary.from_date, pair_summary.to_date) :
     pair_rows[k].tool = tool}
\* The summary compare_day_pair returns for the i-th pair of dates.
SummaryOfPair(i) ==
  compare_day_pair(dates[i], dates[i + 1], day_indexes[dates[i]],
                   day_indexes[dates[i + 1]]).summary

\* C21: in the summary of compare_day_pair each tool's new (removed) total is
\* the sum of new_count (removed_count) over the tool's emitted rows,
\* total_new (total_removed) is the sum of the per-tool totals, and the grand
\* totals of the run are the sums of total_new (total_removed) over the pairs
\* of consecutive dates compared so far: all of them once main is done.
C21_TotalsAreSums ==
  /\ pairAt > 1 =>
       LET totals == pair_summary.tool_totals
           tools == Sorted(DOMAIN totals)
       IN /\ \A t \in DOMAIN totals :
               /\ totals[t].new = SumNewCount(LatestRowsOf(t))
               /\ totals[t].removed = SumRemovedCount(LatestRowsOf(t))
          /\ pair_summary.total_new
               = SumSeq([i \in 1..Len(tools) |-> totals[tools[i]].new])
          /\ pair_summary.total_removed
               = SumSeq([i \in 1..Len(tools) |-> totals[tools[i]].removed])
          /\ pair_summary = SummaryOfPair(pairAt - 1)
  /\ grand_new = SumSeq([i \in ComparedPairs |-> SummaryOfPair(i).total_new])
  /\ grand_removed = SumSeq([i \in ComparedPairs |-> SummaryOfPair(i).total_removed])
  /\ grand_new = SumNewCount(DOMAIN pair_rows)
  /\ grand_removed = SumRemovedCount(DOMAIN pair_rows)
  /\ pcC = "done" => Cardinality(ComparedPairs) = Len(dates) - 1

\* Witness of C21: main is done after two pairs of dates, both with new and
\* removed identifiers, so that each grand total is a sum of two nonzero
\* pair totals.
C21_Witness ==
  /\ pcC = "done"
  /\ Len(dates) = 3
  /\ \A i \in 1..2 :
       SummaryOfPair(i).total_new > 0 /\ SummaryOfPair(i).total_removed > 0
  /\ grand_new = 2
  /\ grand_removed = 2

\* Witness of C21, one pair: a tool's total is the sum over two rows.
C21_WitnessTwoRows ==
  /\ pairAt > 1
  /\ \E t \in DOMAIN pair_summary.tool_totals :
       /\ Cardinality(LatestRowsOf(t)) = 2
       /\ pair_summary.tool_totals[t].new > 0
       /\ pair_summary.tool_totals[t].removed > 0

\* The maps after a step hold every key and identifier the maps before it
\* held, none with a lower severity rank.
MapsGrow(before, after) ==
  \A key \in DOMAIN before :
    /\ key \in DOMAIN after
    /\ \A id \in DOMAIN before[key] :
         /\ id \in DOMAIN after[key]
         /\ sev_rank(after[key][id]) >= sev_rank(before[key][id])
\* Every severity the map under key stores is one observed for its
\* identifier; final: none of the observations of the identifier ranks higher.
StoredIsObserved(maps, key, obs, final) ==
  key \in DOMAIN maps =>
    \A id \in DOMAIN maps[key] :
      /\ <<id, maps[key][id]>> \in obs
      /\ final => \A o \in obs :
                     o[1] = id => sev_rank(o[2]) <= sev_rank(maps[key][id])
\* StoredIsObserved for every key of both maps.
AllStoredObserved(final) ==
  /\ \A key \in DOMAIN overall_image_cves :
       StoredIsObserved(overall_image_cves, key,
                        ObservedForImage(key[1], key[2]), final)
  /\ \A key \in DOMAIN daily_tool_cves :
       StoredIsObserved(daily_tool_cves, key,
                        ObservedForDay(key[1], key[2]), final)

\* C22: while sum_plots.main folds the records, no step lowers the severity
\* rank stored for an identifier in overall_image_cves or daily_tool_cves or
\* removes a stored identifier or key; every stored severity was observed for
\* its identifier and key, and after the fold it is of the maximum rank among
\* those observations.
C22_StoredRankNeverDecreases ==
  /\ [][/\ MapsGrow(overall_image_cves, overall_image_cves')
        /\ MapsGrow(daily_tool_cves, daily_tool_cves')]_vars
  /\ [](AllStoredObserved(pcS = "done"))

\* Witness of C22: the walk is over; for one (tool, image) an identifier was
\* stored from an earlier file, raised by a higher-ranked record of a later
\* file and kept against a lower-ranked record that followed in that file.
C22_Witness ==
  /\ pcS = "done"
  /\ \E i, j \in DOMAIN sum_queue :
       /\ i < j
       /\ sum_queue[i][1] = sum_queue[j][1]
       /\ sum_queue[i][3] = sum_queue[j][3]
       /\ sum_queue[i][2] # sum_queue[j][2]
       /\ LET later == load_items(ReportPath(sum_queue[j]),
                                  Docs[sum_reports[sum_queue[j]]]).items
              tool == ToolOf(sum_queue[j])
          IN \E a \in ObservationsOf(sum_queue[i]), m, n \in DOMAIN later :
               /\ m < n
               /\ later[m].id = a[1]
               /\ later[n].id = a[1]
               /\ sev_rank(a[2]) < sev_rank(later[n].severity)
               /\ sev_rank(later[n].severity) < sev_rank(later[m].severity)
               /\ overall_image_cves[<<tool, sum_queue[j][3]>>][a[1]]
                    = later[m].severity
               /\ daily_tool_cves[<<sum_queue[i][2], tool>>][a[1]] = a[2]
               /\ daily_tool_cves[<<sum_queue[j][2], tool>>][a[1]]
                    = later[m].severity

=============================================================================
